---- MODULE Spec2Model ----
(***************************************************************************)
(* State-machine model of ddtrace.llmobs._llmobs.LLMObs: the service       *)
(* lifecycle (enable / disable / fork), the annotation-context registry    *)
(* and the span-start hook.                                                *)
(*                                                                         *)
(* Objects are identified by small naturals: service instances by their    *)
(* index in insts, writers and runners by their index in objs.  The        *)
(* LLMObsTraceProcessor of instance i is identified with i (one is built   *)
(* per instance in __init__ and never replaced); its two fields are the    *)
(* psw / per fields of insts[i].                                           *)
(***************************************************************************)
EXTENDS Integers, Sequences, FiniteSets, TLC

\* ------------------------------------------------------------------ bounds
MaxInst == 3        \* service instances ever constructed (the default one included)
MaxFork == 1        \* fork events followed into the child
MaxInstAnn == 2     \* service instances constructed where annotation scopes are followed
MaxAnn == 2         \* annotation scopes ever created
NThreads == 2       \* application threads

\* ------------------------------------------------------ python value model
NoneV == "None"
Falsy(x) == x = NoneV \/ x = ""
Truthy(x) == ~Falsy(x)
\* Python's `a or b` on Optional[str]
PyOr(a, b) == IF Truthy(a) THEN a ELSE b
\* ddtrace.internal.utils.formats.asbool on an environment string
AsBool(s) == s \in {"true", "1"}

GlobalTracer == "global"                 \* ddtrace.tracer
Threads == 1..NThreads
Tracers == {GlobalTracer, "custom"}      \* the tracers a caller can hand to enable(_tracer=)

VARIABLES
    enabled,      \* LLMObs.enabled (class attribute)
    instance,     \* LLMObs._instance: index into insts
    insts,        \* every LLMObs object constructed so far
    objs,         \* status of every writer / runner object constructed so far
    trc,          \* per tracer: filter chain, span-start hooks, shutdown flag
    forkHooks,    \* forksafe registry: instances whose _child_after_fork is registered
    cfg,          \* ddtrace.config fields read by this module
    env,          \* os.environ entries read by enable()
    ext,          \* other process-wide effects: patched integrations, atexit hook, telemetry
    ctx,          \* the active trace context: whether there is one, and its
                  \* ANNOTATIONS_CONTEXT_ID baggage item (0: none)
    scopes,       \* every AnnotationContext created: payload, and where it was registered
    span,         \* the span the last step started (NoSpan when it started none)
    nForks,       \* fork events so far
    spans,        \* every span started through the span factory, in start order
    active,       \* the tracer's current span: index into spans, 0 when there is none
    evalq,        \* the records enqueued on the evaluation-metric writer, in order
    carrier,      \* the request headers the last inject_distributed_headers returned
    dctx,         \* the trace context activate_distributed_headers made the active
                  \* one, while it is: trace id, span id, side-channel
    th,           \* per application thread: where it is inside an annotation call or a
                  \* span start, the lock it holds, its own active trace context
    op            \* the last call made on the service and its outcome

vars == <<enabled, instance, insts, objs, trc, forkHooks, cfg, env, ext, ctx, scopes, span,
          nForks, spans, active, evalq, carrier, dctx, th, op>>
\* everything but the observations op and span, and the fork counter
progVars == <<enabled, instance, insts, objs, trc, forkHooks, cfg, env, ext, ctx, scopes>>
annVars == <<ctx, scopes>>
\* the span factory's spans and the evaluation writer's queue
factVars == <<spans, active, evalq, carrier, dctx>>

Op(n, r) == [name |-> n, res |-> r, id |-> 0]
OpId(n, r, i) == [name |-> n, res |-> r, id |-> i]

\* ------------------------------------------------------ python value model
PyNone == [ty |-> "none"]
PyDict(d) == [ty |-> "dict", v |-> d]
PyStr(x) == [ty |-> "str", v |-> x]
PyList(x) == [ty |-> "list", v |-> x]
PyInt(x) == [ty |-> "int", v |-> x]
PyBool(x) == [ty |-> "bool", v |-> x]
\* the serialized form json.dumps gives a dict
Json(d) == [ty |-> "json", v |-> d]

\* bool(x)
PyTruthy(x) ==
    CASE x.ty = "none" -> FALSE
      [] x.ty = "dict" -> DOMAIN x.v # {}
      [] x.ty = "str" -> x.v # ""
      [] x.ty = "list" -> Len(x.v) > 0
      [] x.ty = "int" -> x.v # 0
      [] x.ty = "bool" -> x.v
      [] OTHER -> TRUE

\* dictionary keys: a str key SK("a"), an int key IK("1")
SK(x) == <<"str", x>>
IK(x) == <<"int", x>>
EmptyDict == [k \in {} |-> 0]
\* dict.update
DictUpdate(a, b) == [k \in DOMAIN a \cup DOMAIN b |-> IF k \in DOMAIN b THEN b[k] ELSE a[k]]
\* json.dumps writes every key as a string; json.loads reads the last of two equal keys,
\* which dict.update places after the keys the dictionary already had
JsonKey(k) == SK(k[2])
JsonDumps(d) ==
    [k \in {JsonKey(x) : x \in DOMAIN d} |->
        IF \E x \in DOMAIN d : x # k /\ JsonKey(x) = k
        THEN d[CHOOSE x \in DOMAIN d : x # k /\ JsonKey(x) = k]
        ELSE d[k]]
\* safe_json of a dictionary
SafeJson(x) == Json(JsonDumps(x.v))
\* safe_json of any value
SafeJsonValue(x) == IF x.ty = "dict" THEN SafeJson(x) ELSE Json(x)
\* json.loads of a serialized dictionary
JsonLoads(j) == j.v

\* --------------------------------------------------------------- the world
\* The part of the state that __init__, _start_service, _stop_service and
\* _child_after_fork read and write, passed through them as one record.
World == [insts |-> insts, objs |-> objs, trc |-> trc, forkHooks |-> forkHooks, err |-> FALSE]

RemoveAll(s, x) == SelectSeq(s, LAMBDA y : y # x)
Contains(s, x) == \E k \in 1..Len(s) : s[k] = x
\* Tracer.on_start_span: the hooks of one event form a set
AddHook(s, h) == IF Contains(s, h) THEN s ELSE Append(s, h)

\* Service.start / Service.stop of a writer or runner: a status error when called out of order
ObjStart(w, o) ==
    IF w.objs[o] = "running" THEN [w EXCEPT !.err = TRUE]
    ELSE [w EXCEPT !.objs[o] = "running"]

ObjStop(w, o) ==
    IF w.objs[o] = "stopped" THEN [w EXCEPT !.err = TRUE]
    ELSE [w EXCEPT !.objs[o] = "stopped"]

\* LLMObs.__init__(tracer)
LLMObsInit(w, tr) ==
    LET n == Len(w.objs)
        i == Len(w.insts) + 1
        t == IF tr = NoneV THEN GlobalTracer ELSE tr
        inst == [tracer |-> t, sw |-> n + 1, ew |-> n + 2, er |-> n + 3,
                 psw |-> n + 1, per |-> n + 3, status |-> "stopped",
                 annotations |-> <<>>]
    IN [w EXCEPT !.insts = Append(@, inst),
                 !.objs = @ \o <<"stopped", "stopped", "stopped">>,
                 !.forkHooks = Append(@, i),
                 !.trc[t].hooks = AddHook(@, i)]

\* LLMObs._start_service: lines 131-134, the filter is installed only when the
\* tracer's chain holds no LLMObsTraceProcessor yet
InstallFilter(w, i) ==
    LET t == w.insts[i].tracer
    IN IF Len(w.trc[t].filters) = 0
       THEN [w EXCEPT !.trc[t].filters = Append(@, i)]
       ELSE w

\* lines 135-139: one try block around both writer starts
StartWriters(w, i) ==
    LET w1 == ObjStart([w EXCEPT !.err = FALSE], w.insts[i].sw)
        w2 == IF w1.err THEN w1 ELSE ObjStart(w1, w.insts[i].ew)
    IN [w2 EXCEPT !.err = w.err \/ w2.err]

StartService(w, i) ==
    LET w1 == StartWriters(InstallFilter(w, i), i)
    IN ObjStart(w1, w1.insts[i].er)

\* variant: only the span writer is stopped
StopSpanWriterOnly(w, i) == ObjStop(w, w.insts[i].sw)
\* lines 147-151: one try block around both writer stops
StopWriters(w, i) ==
    LET w1 == ObjStop([w EXCEPT !.err = FALSE], w.insts[i].sw)
        w2 == IF w1.err THEN w1 ELSE ObjStop(w1, w.insts[i].ew)
    IN [w2 EXCEPT !.err = w.err \/ w2.err]

StopService(w, i) ==
    LET w1 == ObjStop(StopWriters(w, i), w.insts[i].er)
        t == w.insts[i].tracer
    IN [w1 EXCEPT !.forkHooks = RemoveAll(@, i), !.trc[t].shutdown = TRUE]

\* writer.recreate() / runner.recreate(): a new, stopped object
Recreate(w) == [w EXCEPT !.objs = Append(@, "stopped")]

\* variant: the processor keeps the pre-fork writer and runner
RepointProcessorStale(inst) == inst
\* lines 125-126
RepointProcessor(inst) == [inst EXCEPT !.psw = inst.sw, !.per = inst.er]

\* LLMObs._child_after_fork; en is self.enabled, which reads the class attribute
ChildAfterFork(w, i, en) ==
    LET n == Len(w.objs)
        w1 == Recreate(Recreate(Recreate(w)))
        w2 == [w1 EXCEPT !.insts[i].sw = n + 1, !.insts[i].ew = n + 2, !.insts[i].er = n + 3]
        w3 == [w2 EXCEPT !.insts[i] = RepointProcessor(@)]
    IN IF en THEN StartService(w3, i) ELSE w3

RECURSIVE RunForkHooks(_, _, _)
RunForkHooks(w, hs, en) ==
    IF hs = <<>> THEN w
    ELSE RunForkHooks(ChildAfterFork(w, Head(hs), en), Tail(hs), en)

\* ------------------------------------------------------------------- Init
EmptyCfg == [ml_app |-> NoneV, api_key |-> NoneV, site |-> NoneV, agentless |-> FALSE]

Envs == { [enabled |-> e, app_name |-> a, rc |-> NoneV] :
            e \in {NoneV, "0"}, a \in {NoneV, "envapp"} }

\* a span as this module sees it; applied records the annotation ids whose payload
\* the span-start hooks handed to annotate()
NoSpan == [type |-> "none", name |-> NoneV, finished |-> FALSE, meta |-> EmptyDict, applied |-> {}]

\* Context(is_remote=False): no baggage yet
NoCtx == [on |-> FALSE, id |-> 0]
NewCtx == [on |-> TRUE, id |-> 0]

FreshTracer == [filters |-> <<>>, hooks |-> <<>>, shutdown |-> FALSE]

\* request headers nothing was injected into, and no activated context
NoHeaders == [k \in {} |-> ""]
NoContext == [trace_id |-> PyNone, span_id |-> PyNone, meta |-> [k \in {} |-> ""]]

\* a thread outside every call of the service, with no active trace context
IdleThread ==
    [pc |-> "idle", lk |-> 0, it |-> 0, idx |-> 0, hs |-> <<>>, ann |-> 0, ctx |-> NoCtx,
     applied |-> {}, llm |-> TRUE]

\* line 925: the default instance built at import, on the global tracer; c is
\* the configuration ddtrace.config holds at import
InitCfg(c) ==
    LET w0 == [insts |-> <<>>, objs |-> <<>>, trc |-> [t \in Tracers |-> FreshTracer],
               forkHooks |-> <<>>, err |-> FALSE]
        w == LLMObsInit(w0, NoneV)
    IN /\ enabled = FALSE
       /\ instance = 1
       /\ insts = w.insts
       /\ objs = w.objs
       /\ trc = w.trc
       /\ forkHooks = w.forkHooks
       /\ cfg = c
       /\ env \in Envs
       /\ ext = [patched |-> FALSE, atexit |-> FALSE, activated |-> FALSE,
                 rc_disabled |-> FALSE, telemetry_agentless |-> FALSE]
       /\ ctx = NoCtx
       /\ scopes = <<>>
       /\ span = NoSpan
       /\ nForks = 0
       /\ spans = <<>>
       /\ active = 0
       /\ evalq = <<>>
       /\ carrier = PyDict(NoHeaders)
       /\ dctx = NoContext
       /\ th = [t \in Threads |-> IdleThread]
       /\ op = Op("init", "ok")
\* no setting of the service is configured at import
Init == InitCfg(EmptyCfg)

SetWorld(w) ==
    /\ insts' = w.insts
    /\ objs' = w.objs
    /\ trc' = w.trc
    /\ forkHooks' = w.forkHooks

\* ----------------------------------------------------------------- enable
\* variant: enable() without its early return
NeverAlreadyEnabled == FALSE
\* line 187
AlreadyEnabled == enabled

\* line 191
EnvDisabled == Truthy(env.enabled) /\ ~AsBool(env.enabled)

\* lines 196-203: the configuration merged with the arguments, before validation
MergedCfg(ml_app, site, api_key) ==
    LET c1 == [cfg EXCEPT !.site = PyOr(site, cfg.site), !.api_key = PyOr(api_key, cfg.api_key)]
        c2 == IF Truthy(env.app_name)
              THEN [c1 EXCEPT !.ml_app = PyOr(ml_app, env.app_name)]
              ELSE c1
    IN [c2 EXCEPT !.ml_app = PyOr(ml_app, c2.ml_app)]

\* line 212
MergedAgentless(c, agentless) == [c EXCEPT !.agentless = agentless \/ c.agentless]

\* variant: only the credential is required
AgentlessInvalidKeyOnly(c) == Falsy(c.api_key)
\* lines 215-224
AgentlessInvalid(c) == Falsy(c.api_key) \/ Falsy(c.site)

Enable(ml_app, integrations, agentless, site, api_key, tr) ==
    LET c1 == MergedCfg(ml_app, site, api_key)
        c2 == MergedAgentless(c1, agentless)
    IN
    IF AlreadyEnabled THEN
        /\ op' = Op("enable", "noop")
        /\ UNCHANGED <<progVars, nForks, th, factVars>>
        /\ span' = NoSpan
    ELSE IF EnvDisabled THEN
        /\ op' = Op("enable", "off")
        /\ UNCHANGED <<progVars, nForks, th, factVars>>
        /\ span' = NoSpan
    ELSE IF Falsy(c1.ml_app) THEN
        /\ cfg' = c1
        /\ op' = Op("enable", "rejected")
        /\ UNCHANGED <<enabled, instance, insts, objs, trc, forkHooks, env, ext, annVars, nForks, th, factVars>>
        /\ span' = NoSpan
    ELSE IF c2.agentless /\ AgentlessInvalid(c2) THEN
        /\ cfg' = c2
        /\ op' = Op("enable", "rejected")
        /\ UNCHANGED <<enabled, instance, insts, objs, trc, forkHooks, env, ext, annVars, nForks, th, factVars>>
        /\ span' = NoSpan
    ELSE
        /\ Len(insts) < MaxInst
        /\ cfg' = c2
        /\ LET w1 == LLMObsInit(World, tr)
               i == Len(w1.insts)
               \* Service.start of the new instance: it is stopped, so _start_service runs
               w2 == StartService(w1, i)
               w3 == [w2 EXCEPT !.insts[i].status = "running"]
           IN /\ SetWorld(w3)
              /\ instance' = i
              /\ op' = Op("enable", IF w3.err THEN "status_error" ELSE "ok")
        /\ enabled' = TRUE
        /\ ext' = [ext EXCEPT !.patched = @ \/ integrations,
                              !.atexit = TRUE,
                              !.activated = TRUE,
                              !.rc_disabled = @ \/ (c2.agentless /\ Falsy(env.rc)),
                              !.telemetry_agentless = @ \/ c2.agentless]
        /\ UNCHANGED <<env, annVars, nForks, th, factVars>>
        /\ span' = NoSpan

\* ---------------------------------------------------------------- disable
\* line 255
NotEnabled == ~enabled

\* line 263
DeregisterHook(w, i) == [w EXCEPT !.trc[w.insts[i].tracer].hooks = RemoveAll(@, i)]

Disable ==
    IF NotEnabled THEN
        /\ op' = Op("disable", "noop")
        /\ UNCHANGED <<progVars, nForks, th, factVars>>
        /\ span' = NoSpan
    ELSE IF insts[instance].status = "stopped" THEN
        \* Service.stop raises a status error that disable() does not catch
        /\ enabled' = FALSE
        /\ ext' = [ext EXCEPT !.atexit = FALSE]
        /\ op' = Op("disable", "raised")
        /\ UNCHANGED <<instance, insts, objs, trc, forkHooks, cfg, env, annVars, nForks, th, factVars>>
        /\ span' = NoSpan
    ELSE
        /\ enabled' = FALSE
        /\ LET w1 == StopService(World, instance)
               w2 == [w1 EXCEPT !.insts[instance].status = "stopped"]
               w3 == DeregisterHook(w2, instance)
           IN /\ SetWorld(w3)
              /\ op' = Op("disable", IF w3.err THEN "status_error" ELSE "ok")
        /\ ext' = [ext EXCEPT !.atexit = FALSE, !.activated = FALSE]
        /\ UNCHANGED <<instance, cfg, env, annVars, nForks, th, factVars>>
        /\ span' = NoSpan

\* ------------------------------------------------------------------- fork
\* A fork followed into the child: forksafe runs every registered handler there.
Fork ==
    /\ nForks < MaxFork
    /\ nForks' = nForks + 1
    /\ LET w == RunForkHooks(World, forkHooks, enabled)
       IN /\ SetWorld(w)
          /\ op' = Op("fork", IF w.err THEN "status_error" ELSE "ok")
    /\ UNCHANGED <<enabled, instance, cfg, env, ext, annVars, th, factVars>>
    /\ span' = NoSpan

\* ------------------------------------------------------------ annotations
TAGS == "_ml_obs.tags"
INPUT_PROMPT == "_ml_obs.meta.input.prompt"
LLM == "llm"                                  \* SpanTypes.LLM

GetTag(sp, k) == IF k \in DOMAIN sp.meta THEN sp.meta[k] ELSE PyNone
SetTag(sp, k, v) ==
    [sp EXCEPT !.meta = [x \in DOMAIN sp.meta \cup {k} |-> IF x = k THEN v ELSE sp.meta[x]]]

\* variant: the tags the span already carries win over the new ones
MergeTagsKeepOld(cur, new) == DictUpdate(new, cur)
\* lines 730-733: new keys merged over the tags the span already carries
MergeTags(cur, new) == DictUpdate(cur, new)

\* variant: the supplied tags replace the tags the span already carries
TagSpanTagsReplace(sp, tags) ==
    IF ~PyTruthy(tags) THEN sp
    ELSE IF tags.ty # "dict" THEN sp
    ELSE SetTag(sp, TAGS, SafeJson(tags))
\* LLMObs._tag_span_tags
TagSpanTags(sp, tags) ==
    IF ~PyTruthy(tags) THEN sp
    ELSE IF tags.ty # "dict" THEN sp
    ELSE LET cur == GetTag(sp, TAGS)
             merged == IF cur.ty = "json" THEN MergeTags(JsonLoads(cur), tags.v) ELSE tags.v
         IN SetTag(sp, TAGS, SafeJson(PyDict(merged)))

\* validate_prompt: a prompt that is no mapping is a TypeError
PromptValid(prompt) == prompt.ty = "dict"

\* LLMObs._tag_prompt
TagPrompt(sp, prompt) ==
    IF PromptValid(prompt) THEN SetTag(sp, INPUT_PROMPT, SafeJson(prompt)) ELSE sp

SPAN_KIND == "_ml_obs.meta.span.kind"
METADATA == "_ml_obs.meta.metadata"
METRICS == "_ml_obs.metrics"
INPUT_PARAMETERS == "_ml_obs.meta.input.parameters"
INPUT_MESSAGES == "_ml_obs.meta.input.messages"
OUTPUT_MESSAGES == "_ml_obs.meta.output.messages"
INPUT_DOCUMENTS == "_ml_obs.meta.input.documents"
OUTPUT_DOCUMENTS == "_ml_obs.meta.output.documents"
INPUT_VALUE == "_ml_obs.meta.input.value"
OUTPUT_VALUE == "_ml_obs.meta.output.value"

\* variant: the supplied metadata is merged over the metadata the span carries
TagMetadataMerge(sp, metadata) ==
    IF ~PyTruthy(metadata) THEN sp
    ELSE IF metadata.ty # "dict" THEN sp
    ELSE LET cur == GetTag(sp, METADATA)
             merged == IF cur.ty = "json" THEN DictUpdate(JsonLoads(cur), metadata.v)
                       ELSE metadata.v
         IN SetTag(sp, METADATA, SafeJson(PyDict(merged)))
\* LLMObs._tag_metadata
TagMetadata(sp, metadata) ==
    IF ~PyTruthy(metadata) THEN sp
    ELSE IF metadata.ty # "dict" THEN sp
    ELSE SetTag(sp, METADATA, SafeJson(metadata))

\* LLMObs._tag_metrics
TagMetrics(sp, metrics) ==
    IF ~PyTruthy(metrics) THEN sp
    ELSE IF metrics.ty # "dict" THEN sp
    ELSE SetTag(sp, METRICS, SafeJson(metrics))

\* variant: parameters that are no mapping are written as an empty mapping
TagParamsUnchecked(sp, params) ==
    SetTag(sp, INPUT_PARAMETERS, IF params.ty = "dict" THEN SafeJson(params) ELSE Json(EmptyDict))
\* LLMObs._tag_params
TagParams(sp, params) ==
    IF params.ty # "dict" THEN sp ELSE SetTag(sp, INPUT_PARAMETERS, SafeJson(params))

\* utils.Messages(x).messages and utils.Documents(x).documents: one string or
\* mapping, or a list of them, becomes a list; anything else is a TypeError
Normalized(x) ==
    CASE x.ty = "str" -> [ok |-> TRUE, v |-> <<x>>]
      [] x.ty = "dict" -> [ok |-> TRUE, v |-> <<x>>]
      [] x.ty = "list" -> [ok |-> TRUE, v |-> x.v]
      [] OTHER -> [ok |-> FALSE, v |-> <<>>]

\* variant: an empty normalized list is written like any other
TagNormalizedEmpty(sp, k, x) ==
    IF Normalized(x).ok THEN SetTag(sp, k, Json(PyList(Normalized(x).v))) ELSE sp
\* the tagging of a normalized list: an empty list, and a TypeError, write nothing
TagNormalized(sp, k, x) ==
    IF Normalized(x).ok /\ Normalized(x).v # <<>>
    THEN SetTag(sp, k, Json(PyList(Normalized(x).v)))
    ELSE sp

\* LLMObs._tag_llm_io
TagLlmIo(sp, input, output) ==
    LET s1 == IF input.ty # "none" THEN TagNormalized(sp, INPUT_MESSAGES, input) ELSE sp
    IN IF output.ty = "none" THEN s1 ELSE TagNormalized(s1, OUTPUT_MESSAGES, output)

\* LLMObs._tag_embedding_io
TagEmbeddingIo(sp, input, output) ==
    LET s1 == IF input.ty # "none" THEN TagNormalized(sp, INPUT_DOCUMENTS, input) ELSE sp
    IN IF output.ty = "none" THEN s1 ELSE SetTag(s1, OUTPUT_VALUE, SafeJsonValue(output))

\* LLMObs._tag_retrieval_io
TagRetrievalIo(sp, input, output) ==
    LET s1 == IF input.ty # "none" THEN SetTag(sp, INPUT_VALUE, SafeJsonValue(input)) ELSE sp
    IN IF output.ty = "none" THEN s1 ELSE TagNormalized(s1, OUTPUT_DOCUMENTS, output)

\* LLMObs._tag_text_io
TagTextIo(sp, input, output) ==
    LET s1 == IF input.ty # "none" THEN SetTag(sp, INPUT_VALUE, SafeJsonValue(input)) ELSE sp
    IN IF output.ty # "none" THEN SetTag(s1, OUTPUT_VALUE, SafeJsonValue(output)) ELSE s1

\* the arguments of annotate, all None
NoArgs ==
    [parameters |-> PyNone, prompt |-> PyNone, input_data |-> PyNone, output_data |-> PyNone,
     metadata |-> PyNone, metrics |-> PyNone, tags |-> PyNone, name |-> NoneV]

\* variant: annotate without its check of span.finished
NeverFinished(sp) == FALSE
\* line 599
SpanFinished(sp) == sp.finished

\* variant: the kind tag is not consulted, every span is tagged as an llm span
SpanKindLlm(sp) == PyStr("llm")
\* line 608
SpanKindOf(sp) == GetTag(sp, SPAN_KIND)

\* LLMObs.annotate(span, ...) on a given span (lines 596-627)
AnnotateCall(sp, a) ==
    IF sp.type # LLM THEN sp
    ELSE IF SpanFinished(sp) THEN sp
    ELSE LET s1 == IF a.metadata.ty # "none" THEN TagMetadata(sp, a.metadata) ELSE sp
             s2 == IF a.metrics.ty # "none" THEN TagMetrics(s1, a.metrics) ELSE s1
             s3 == IF a.tags.ty # "none" THEN TagSpanTags(s2, a.tags) ELSE s2
             span_kind == SpanKindOf(s3)
             s4 == IF a.parameters.ty # "none" THEN TagParams(s3, a.parameters) ELSE s3
             s5 == IF a.name # NoneV THEN [s4 EXCEPT !.name = a.name] ELSE s4
             s6 == IF a.prompt.ty # "none" THEN TagPrompt(s5, a.prompt) ELSE s5
         IN IF ~PyTruthy(span_kind) THEN s6
            ELSE IF a.input_data.ty = "none" /\ a.output_data.ty = "none" THEN s6
            ELSE IF span_kind.v = "llm" THEN TagLlmIo(s6, a.input_data, a.output_data)
            ELSE IF span_kind.v = "embedding"
                 THEN TagEmbeddingIo(s6, a.input_data, a.output_data)
            ELSE IF span_kind.v = "retrieval"
                 THEN TagRetrievalIo(s6, a.input_data, a.output_data)
            ELSE TagTextIo(s6, a.input_data, a.output_data)

\* LLMObs.annotate as the span-start hook calls it: annotate(span, tags=, prompt=, _name=);
\* every other parameter is None on this path
Annotate(sp, kw) ==
    AnnotateCall(sp, [NoArgs EXCEPT !.tags = kw.tags, !.prompt = kw.prompt, !.name = kw.name])

NoPayload == [tags |-> PyNone, prompt |-> PyNone, name |-> NoneV]

\* variant: every entry of the registry applies
EntryMatchesAny(entry, ctxId) == TRUE
\* line 118: an entry applies when its context id is the active context's
\* ANNOTATIONS_CONTEXT_ID (0 stands for None, which no entry records)
EntryMatches(entry, ctxId) == ctxId = entry.ctx

\* lines 117-119: the loop over the registry, in list order
RECURSIVE ApplyEntries(_, _, _)
ApplyEntries(sp, entries, ctxId) ==
    IF entries = <<>> THEN sp
    ELSE LET e == Head(entries)
             s1 == IF EntryMatches(e, ctxId)
                   THEN [Annotate(sp, e.kw) EXCEPT !.applied = @ \cup {e.id}]
                   ELSE sp
         IN ApplyEntries(s1, Tail(entries), ctxId)

\* the registry _do_annotations iterates: self._instance._annotations (line 117)
HookRegistry(h) == insts[instance].annotations

\* LLMObs._do_annotations of instance h; ctxId is the ANNOTATIONS_CONTEXT_ID baggage item of
\* self._instance.tracer.current_trace_context() (lines 114-115), 0 when it has none
DoAnnotations(h, sp, ctxId) ==
    IF sp.type # LLM THEN sp
    ELSE ApplyEntries(sp, HookRegistry(h), ctxId)

\* Tracer start_span hooks: every registered hook is called with the new span
RECURSIVE EmitStartSpan(_, _, _)
EmitStartSpan(hooks, sp, ctxId) ==
    IF hooks = <<>> THEN sp
    ELSE EmitStartSpan(Tail(hooks), DoAnnotations(Head(hooks), sp, ctxId), ctxId)

\* tracer.trace(name, span_type=ty) on the current instance's tracer (line 373):
\* the span joins the active trace context, or starts one; then the hooks fire
TracerTrace(ty) ==
    LET t == insts[instance].tracer
        c == IF ctx.on THEN ctx ELSE NewCtx
        sp == [type |-> ty, name |-> "span", finished |-> FALSE, meta |-> EmptyDict, applied |-> {}]
    IN /\ ctx' = c
       /\ span' = EmitStartSpan(trc[t].hooks, sp, c.id)
       /\ op' = Op("trace", ty)
       /\ UNCHANGED <<enabled, instance, insts, objs, trc, forkHooks, cfg, env, ext, scopes, nForks, th, factVars>>

\* the active trace ends: the context provider has no active context any more
DeactivateContext ==
    /\ ctx.on
    /\ ctx' = NoCtx
    /\ op' = Op("deactivate", "ok")
    /\ UNCHANGED <<enabled, instance, insts, objs, trc, forkHooks, cfg, env, ext, scopes, nForks, th, factVars>>
    /\ span' = NoSpan

\* variant: every scope brings its own annotation id as the ambient id
ContextIdOwn(c, annId) == annId
\* get_annotations_context_id (lines 287-299): the context's id, which is the annotation
\* id when there is no active context or the active one carries none
ContextId(c, annId) == IF c.on /\ c.id # 0 THEN c.id ELSE annId
AnnotationsContextId(annId) == ContextId(ctx, annId)

\* annotation_context(...).register_annotation (lines 285-306); the annotation id,
\* rand64bits(), is a fresh value
RegisterAnnotation(kw) ==
    LET annId == Len(scopes) + 1
        ctxId == AnnotationsContextId(annId)
    IN /\ Len(scopes) < MaxAnn
       /\ ctx' = [on |-> TRUE, id |-> ctxId]
       /\ insts' = [insts EXCEPT ![instance].annotations =
                        Append(@, [id |-> annId, ctx |-> ctxId, kw |-> kw])]
       /\ scopes' = Append(scopes, [state |-> "open", inst |-> instance, ctx |-> ctxId, kw |-> kw])
       /\ op' = OpId("register", "ok", annId)
       /\ UNCHANGED <<enabled, instance, objs, trc, forkHooks, cfg, env, ext, nForks, th, factVars>>
       /\ span' = NoSpan

\* an AnnotationContext whose __exit__ has run
ClosedScope == [state |-> "closed", inst |-> 0, ctx |-> 0, kw |-> NoPayload]

\* variant: every entry sharing the ambient id of the scope is dropped
PopAnnotationByContext(entries, annId) ==
    IF \E k \in 1..Len(entries) : entries[k].id = annId
    THEN LET c == (CHOOSE k \in 1..Len(entries) : entries[k].id = annId)
         IN SelectSeq(entries, LAMBDA e : e.ctx # entries[c].ctx)
    ELSE entries
\* lines 310-313: the first entry whose annotation id is annId is popped
PopAnnotation(entries, annId) ==
    IF \E k \in 1..Len(entries) : entries[k].id = annId
    THEN LET k == CHOOSE j \in 1..Len(entries) :
                      /\ entries[j].id = annId
                      /\ \A m \in 1..(j - 1) : entries[m].id # annId
         IN SubSeq(entries, 1, k - 1) \o SubSeq(entries, k + 1, Len(entries))
    ELSE entries

\* annotation_context(...).deregister_annotation (lines 308-315)
DeregisterAnnotation(annId) ==
    LET found == \E k \in 1..Len(insts[instance].annotations) :
                     insts[instance].annotations[k].id = annId
    IN /\ insts' = [insts EXCEPT ![instance].annotations = PopAnnotation(@, annId)]
       /\ scopes' = [scopes EXCEPT ![annId] = ClosedScope]
       /\ op' = OpId("deregister", IF found THEN "ok" ELSE "not_found", annId)
       /\ UNCHANGED <<enabled, instance, objs, trc, forkHooks, cfg, env, ext, ctx, nForks, th, factVars>>
       /\ span' = NoSpan

\* ----------------------------------------------------------- span factory
MODEL_NAME == "_ml_obs.meta.model_name"
MODEL_PROVIDER == "_ml_obs.meta.model_provider"
SESSION_ID == "_ml_obs.session_id"
ML_APP == "_ml_obs.meta.ml_app"
PARENT_ID_KEY == "_ml_obs.llmobs_parent_id"
PROPAGATED_PARENT_ID_KEY == "_dd.p.llmobs_parent_id"

\* str(span.span_id); a span's id is its position in spans
SpanIdStr(i) == ToString(i)

\* _get_llmobs_parent_id: the nearest ancestor span of the LLM type, from p upward
RECURSIVE NearestLLMObsAncestor(_)
NearestLLMObsAncestor(p) ==
    IF p = 0 THEN 0
    ELSE IF spans[p].type = LLM THEN p
    ELSE NearestLLMObsAncestor(spans[p].parent)
GetLLMObsParentId(p) ==
    IF NearestLLMObsAncestor(p) = 0 THEN NoneV ELSE SpanIdStr(NearestLLMObsAncestor(p))

\* _get_session_id: the session id of the nearest ancestor carrying one, from p upward
RECURSIVE GetSessionId(_)
GetSessionId(p) ==
    IF p = 0 THEN NoneV
    ELSE IF SESSION_ID \in DOMAIN spans[p].meta THEN spans[p].meta[SESSION_ID].v
    ELSE GetSessionId(spans[p].parent)

\* _get_ml_app: the application id of the nearest ancestor carrying one, from p
\* upward, else the process-wide default config._llmobs_ml_app
RECURSIVE GetMlApp(_)
GetMlApp(p) ==
    IF p = 0 THEN cfg.ml_app
    ELSE IF ML_APP \in DOMAIN spans[p].meta THEN spans[p].meta[ML_APP].v
    ELSE GetMlApp(spans[p].parent)

\* the trace id the tracer gives a new span: its parent's, else the one of the
\* activated distributed context, else a fresh one (drawn apart from span ids)
NewTraceId ==
    IF active # 0 THEN spans[active].trace
    ELSE IF dctx.trace_id # PyNone THEN dctx.trace_id.v
    ELSE 100 + Len(spans) + 1

\* tracer.trace(name, span_type=ty) with the span-start hooks run: a child of the
\* current span; prop is the propagated-parent value the trace context hands
\* the span (NoneV: none)
TraceSpan(nm, ty, prop) ==
    LET sp == [type |-> ty, name |-> nm, finished |-> FALSE,
               meta |-> IF prop = NoneV THEN EmptyDict
                        ELSE PROPAGATED_PARENT_ID_KEY :> PyStr(prop),
               applied |-> {}, parent |-> active, trace |-> NewTraceId]
    IN EmitStartSpan(trc[insts[instance].tracer].hooks, sp, ctx.id)

\* variant: the logical parent id is written whatever the span carries
NeverPropagated(sp) == TRUE
\* line 385
NotPropagated(sp) == GetTag(sp, PROPAGATED_PARENT_ID_KEY) = PyNone

\* variant: the inherited session id is preferred to the argument
ResolveSessionInherited(session_id, p) ==
    IF GetSessionId(p) # NoneV THEN GetSessionId(p) ELSE session_id
\* line 379
ResolveSession(session_id, p) ==
    IF session_id # NoneV THEN session_id ELSE GetSessionId(p)

\* LLMObs._start_span (lines 362-391), on the span tracer.trace returned
StartSpanTags(s0, operation_kind, session_id, model_name, model_provider, ml_app) ==
    LET s1 == SetTag(s0, SPAN_KIND, PyStr(operation_kind))
        s2 == IF model_name # NoneV THEN SetTag(s1, MODEL_NAME, PyStr(model_name)) ELSE s1
        s3 == IF model_provider # NoneV
              THEN SetTag(s2, MODEL_PROVIDER, PyStr(model_provider)) ELSE s2
        sid == ResolveSession(session_id, s0.parent)
        s4 == IF sid # NoneV THEN SetTag(s3, SESSION_ID, PyStr(sid)) ELSE s3
        app == IF ml_app = NoneV THEN GetMlApp(s0.parent) ELSE ml_app
        \* Span.set_tag_str drops a value that is no text
        s5 == IF app # NoneV THEN SetTag(s4, ML_APP, PyStr(app)) ELSE s4
    IN IF NotPropagated(s5)
       THEN SetTag(s5, PARENT_ID_KEY,
                   PyStr(IF GetLLMObsParentId(s0.parent) # NoneV
                         THEN GetLLMObsParentId(s0.parent) ELSE "undefined"))
       ELSE s5

\* what every span start leaves alone
SpanFrame ==
    UNCHANGED <<enabled, instance, insts, objs, trc, forkHooks, cfg, env, ext, scopes, span,
                nForks, evalq, carrier, th>>

\* LLMObs._start_span as an operation: the span is appended and becomes current
StartLLMObsSpan(operation_kind, name, session_id, model_name, model_provider, ml_app, prop) ==
    LET nm == IF name = NoneV THEN operation_kind ELSE name
        s0 == TraceSpan(nm, LLM, prop)
    IN /\ spans' = Append(spans, StartSpanTags(s0, operation_kind, session_id, model_name,
                                               model_provider, ml_app))
       /\ active' = Len(spans) + 1
       /\ ctx' = IF ctx.on THEN ctx ELSE NewCtx
       /\ op' = OpId("start_span", operation_kind, Len(spans) + 1)
       /\ dctx' = NoContext
       /\ SpanFrame

\* variant: the model tags are left to _start_span as the caller gave them
ModelDefaultKept(m) == m
\* lines 417-420 and 516-519: a model name or provider not given is "custom"
ModelDefault(m) == IF m = NoneV THEN "custom" ELSE m

ModelKinds == {"llm", "embedding"}
PlainKinds == {"tool", "task", "agent", "workflow", "retrieval"}
SpanKinds == ModelKinds \cup PlainKinds

\* LLMObs.llm, LLMObs.embedding
StartModelSpan(kind, model_name, name, model_provider, session_id, ml_app, prop) ==
    StartLLMObsSpan(kind, name, session_id, ModelDefault(model_name), ModelDefault(model_provider),
              ml_app, prop)

\* LLMObs.tool, task, agent, workflow, retrieval
StartPlainSpan(kind, name, session_id, ml_app, prop) ==
    StartLLMObsSpan(kind, name, session_id, NoneV, NoneV, ml_app, prop)

\* tracer.trace(name, span_type=ty) called directly, as an integration or the
\* application does: the span factory sets no tag on it
StartTracerSpan(ty, prop) ==
    /\ spans' = Append(spans, TraceSpan("traced", ty, prop))
    /\ active' = Len(spans) + 1
    /\ ctx' = IF ctx.on THEN ctx ELSE NewCtx
    /\ op' = OpId("start_span", "traced", Len(spans) + 1)
    /\ dctx' = NoContext
    /\ SpanFrame

\* span.finish() of the current span: its parent becomes current
FinishSpan ==
    /\ active # 0
    /\ spans' = [spans EXCEPT ![active].finished = TRUE]
    /\ active' = spans[active].parent
    /\ op' = OpId("finish", "ok", active)
    /\ dctx' = NoContext
    /\ UNCHANGED ctx
    /\ SpanFrame

\* LLMObs.annotate(span=..., ...) as an operation; i = 0 stands for span=None,
\* which annotates the tracer's current span (lines 591-595)
AnnotateSpan(i, a) ==
    LET target == IF i = 0 THEN active ELSE i
    IN /\ spans' = IF target = 0 THEN spans
                   ELSE [spans EXCEPT ![target] = AnnotateCall(@, a)]
       /\ op' = [name |-> "annotate", res |-> IF target = 0 THEN "no_span" ELSE "ok",
                 id |-> target, tags |-> a.tags]
       /\ UNCHANGED <<active, ctx, dctx>>
       /\ SpanFrame

\* ------------------------------------------------------ submit_evaluation
\* int(time.time() * 1000)
NowMs == 1000
\* ddtrace.__version__
DDTRACE_VERSION == "2.x"

\* dict.get
DictGet(d, k) == IF k \in DOMAIN d THEN d[k] ELSE NoneV
\* str.lower on the metric types that occur
Lower(x) == IF x = "Score" THEN "score" ELSE x

\* line 802
ResolveEvalMlApp(ml_app) == IF Truthy(ml_app) THEN ml_app ELSE cfg.ml_app
\* line 810
ResolveTimestamp(timestamp_ms) == IF PyTruthy(timestamp_ms) THEN timestamp_ms ELSE PyInt(NowMs)

\* variant: only a negative timestamp is refused
TimestampNegativeOnly(ts) == ts.ty = "int" /\ ts.v < 0
\* line 812; a bool is an int
TimestampInvalid(ts) == ts.ty \notin {"int", "bool"} \/ (ts.ty = "int" /\ ts.v < 0)

\* lines 816-818
IdsMissing(span_context) ==
    ~(Truthy(DictGet(span_context.v, SK("span_id"))) /\ Truthy(DictGet(span_context.v, SK("trace_id"))))

EvalKinds == {"categorical", "numerical", "score"}
\* line 825, for a metric type that has a lower()
MetricTypeInvalid(metric_type) == ~PyTruthy(metric_type) \/ Lower(metric_type.v) \notin EvalKinds

\* variant: the metric type is lowered and nothing else
NormalizedKindLowerOnly(metric_type) == Lower(metric_type.v)
\* lines 829-835: "numerical" becomes "score"
NormalizedKind(metric_type) ==
    IF Lower(metric_type.v) = "numerical" THEN "score" ELSE Lower(metric_type.v)

\* variant: any value is taken
ValueMismatchNever(kind, value) == FALSE
\* lines 837-842: isinstance(value, str), isinstance(value, (int, float))
ValueMismatch(kind, value) ==
    \/ kind = "categorical" /\ value.ty # "str"
    \/ kind = "score" /\ value.ty \notin {"int", "float", "bool"}

\* variant: a default tag keeps its value when the caller gives the same key
EvaluationTagsDefaultsWin(tags, ml_app) ==
    LET defaults == (SK("ddtrace.version") :> DDTRACE_VERSION) @@ (SK("ml_app") :> ml_app)
        given == IF PyTruthy(tags) THEN tags.v ELSE EmptyDict
        kept == {k \in DOMAIN given : k[1] = "str" /\ given[k].ty = "str"}
    IN DictUpdate([k \in kept |-> given[k].v], defaults)
\* lines 848-858: the default tags, then every caller tag whose key and value
\* ensure_text accepts, a tag it refuses being skipped
EvaluationTags(tags, ml_app) ==
    LET defaults == (SK("ddtrace.version") :> DDTRACE_VERSION) @@ (SK("ml_app") :> ml_app)
        given == IF PyTruthy(tags) THEN tags.v ELSE EmptyDict
        kept == {k \in DOMAIN given : k[1] = "str" /\ given[k].ty = "str"}
    IN DictUpdate(defaults, [k \in kept |-> given[k].v])

\* lines 860-877: the record
EvaluationMetric(a, ml_app, ts, kind) ==
    [span_id |-> DictGet(a.span_context.v, SK("span_id")),
     trace_id |-> DictGet(a.span_context.v, SK("trace_id")),
     label |-> a.label,
     metric_type |-> kind,
     timestamp_ms |-> ts.v,
     value_key |-> kind \o "_value",
     value |-> a.value,
     ml_app |-> ml_app,
     tags |-> EvaluationTags(a.tags, ml_app),
     metadata |-> IF PyTruthy(a.metadata) /\ a.metadata.ty = "dict"
                  THEN PyDict(JsonLoads(SafeJson(a.metadata))) ELSE PyNone]

\* the outcome of the validations of lines 784-845, in the order of the code:
\* the signal of the first that fails, "ok" when none does; the lower() of a
\* metric type that is not a string raises an AttributeError
EvalSignal(a) ==
    IF ~enabled THEN "disabled"
    ELSE IF Falsy(cfg.api_key) THEN "no_api_key"
    ELSE IF a.span_context.ty # "dict" THEN "span_context_not_dict"
    ELSE IF Falsy(ResolveEvalMlApp(a.ml_app)) THEN "no_ml_app"
    ELSE IF TimestampInvalid(ResolveTimestamp(a.timestamp_ms)) THEN "bad_timestamp"
    ELSE IF IdsMissing(a.span_context) THEN "ids_missing"
    ELSE IF Falsy(a.label) THEN "no_label"
    ELSE IF PyTruthy(a.metric_type) /\ a.metric_type.ty # "str" THEN "raised"
    ELSE IF MetricTypeInvalid(a.metric_type) THEN "bad_metric_type"
    ELSE IF ValueMismatch(NormalizedKind(a.metric_type), a.value) THEN "bad_value"
    ELSE IF a.tags.ty # "none" /\ a.tags.ty # "dict" THEN "bad_tags"
    ELSE "ok"

\* variant: the record is put on the queue twice
EnqueueTwice(q, r) == Append(Append(q, r), r)
\* line 879: the evaluation-metric writer of the current instance takes the record
Enqueue(q, r) == Append(q, r)

EvalFrame ==
    UNCHANGED <<enabled, instance, insts, objs, trc, forkHooks, cfg, env, ext, ctx, scopes, span,
                nForks, spans, active, carrier, dctx, th>>

\* LLMObs.submit_evaluation (lines 759-879)
SubmitEvaluation(a) ==
    LET res == EvalSignal(a)
        rec == EvaluationMetric(a, ResolveEvalMlApp(a.ml_app), ResolveTimestamp(a.timestamp_ms),
                                NormalizedKind(a.metric_type))
    IN /\ evalq' = IF res = "ok"
                   THEN Enqueue(evalq, [writer |-> insts[instance].ew, rec |-> rec])
                   ELSE evalq
       /\ op' = [name |-> "submit_evaluation", res |-> res, id |-> 0, args |-> a]
       /\ EvalFrame

\* ------------------------------------------------------------------- Spec
MlApps == {NoneV, "app"}
Sites == {NoneV, "site"}
ApiKeys == {NoneV, "key"}
TracerArgs == {NoneV, "custom"}

EnableCall ==
    \E m \in MlApps, g \in BOOLEAN, a \in BOOLEAN, s \in Sites, k \in ApiKeys, t \in TracerArgs :
        Enable(m, g, a, s, k, t)

Next == EnableCall \/ Disable \/ Fork

Spec == Init /\ [][Next]_vars

\* ---------------------------------------------------------------- SpecAnn
\* The annotation registry under lifecycle calls: enable() with a valid
\* configuration on either tracer, disable(), annotation scopes and span starts.
TagA == SK("a") :> 1
TagAB == (SK("a") :> 2) @@ (SK("b") :> 3)
Payloads ==
    { [tags |-> PyDict(TagA), prompt |-> PyNone, name |-> NoneV],
      [tags |-> PyDict(TagAB), prompt |-> PyDict(SK("template") :> 1), name |-> "renamed"] }
SpanTypeArgs == {LLM, "web"}

InitAnn == Init /\ env = [enabled |-> NoneV, app_name |-> NoneV, rc |-> NoneV]

EnableValid ==
    /\ Len(insts) < MaxInstAnn
    /\ \E t \in TracerArgs : Enable("app", FALSE, FALSE, NoneV, NoneV, t)
Register == \E kw \in Payloads : RegisterAnnotation(kw)
Deregister == \E a \in 1..Len(scopes) : DeregisterAnnotation(a)
Trace == \E ty \in SpanTypeArgs : TracerTrace(ty)

NextAnn == EnableValid \/ Disable \/ Register \/ Deregister \/ Trace \/ DeactivateContext

SpecAnn == InitAnn /\ [][NextAnn]_vars

\* --------------------------------------------------------------- SpecConc
\* Application threads inside register_annotation, deregister_annotation and
\* the span-start hooks, one bytecode-level step at a time.  Each thread has
\* its own active trace context (the context provider is a context variable);
\* every LLMObs object has its own re-entrant lock (line 106).

\* instance i's _annotation_context_lock can be taken by thread t
LockFree(i, t) == \A u \in Threads : u # t => th[u].lk # i
ThreadIdle(t) == [IdleThread EXCEPT !.ctx = th[t].ctx]
ConcFrame ==
    UNCHANGED <<enabled, instance, objs, trc, forkHooks, cfg, env, ext, ctx, span, nForks, factVars>>

\* line 302: `with cls._instance._annotation_context_lock`
ThreadRegisterLock(t) ==
    /\ th[t].pc = "idle"
    /\ Len(scopes) < MaxAnn
    /\ LockFree(instance, t)
    /\ th' = [th EXCEPT ![t].pc = "register", ![t].lk = instance]
    /\ op' = Op("register_lock", "ok")
    /\ UNCHANGED <<insts, scopes>> /\ ConcFrame

\* lines 303-306: the context id, then `cls._instance._annotations.append(...)`
ThreadRegisterAppend(t) ==
    LET annId == Len(scopes) + 1
        ctxId == ContextId(th[t].ctx, annId)
    IN /\ th[t].pc = "register"
       /\ insts' = [insts EXCEPT ![instance].annotations =
                        Append(@, [id |-> annId, ctx |-> ctxId, kw |-> NoPayload])]
       /\ scopes' = Append(scopes, [state |-> "open", inst |-> instance, ctx |-> ctxId,
                                    kw |-> NoPayload])
       /\ th' = [th EXCEPT ![t].pc = "release", ![t].ctx = [on |-> TRUE, id |-> ctxId]]
       /\ op' = OpId("register_append", "ok", annId)
       /\ ConcFrame

\* line 309: `with cls._instance._annotation_context_lock`
ThreadDeregisterLock(t, annId) ==
    /\ th[t].pc = "idle"
    /\ scopes[annId].state = "open"
    /\ LockFree(instance, t)
    /\ th' = [th EXCEPT ![t].pc = "deregister", ![t].lk = instance, ![t].ann = annId]
    /\ op' = OpId("deregister_lock", "ok", annId)
    /\ UNCHANGED <<insts, scopes>> /\ ConcFrame

\* lines 310-315: the scan of cls._instance._annotations and the pop
ThreadDeregisterPop(t) ==
    /\ th[t].pc = "deregister"
    /\ insts' = [insts EXCEPT ![instance].annotations = PopAnnotation(@, th[t].ann)]
    /\ scopes' = [scopes EXCEPT ![th[t].ann] = ClosedScope]
    /\ th' = [th EXCEPT ![t].pc = "release"]
    /\ op' = OpId("deregister_pop", "ok", th[t].ann)
    /\ ConcFrame

\* the end of either `with` block
ThreadRelease(t) ==
    /\ th[t].pc = "release"
    /\ th' = [th EXCEPT ![t] = ThreadIdle(t)]
    /\ op' = Op("release", "ok")
    /\ UNCHANGED <<insts, scopes>> /\ ConcFrame

\* a span of the LLM type is started on the current instance's tracer: the
\* tracer calls its span-start hooks in registration order
ThreadStartSpan(t) ==
    /\ th[t].pc = "idle"
    /\ trc[insts[instance].tracer].hooks # <<>>
    /\ th' = [th EXCEPT ![t].pc = "emit", ![t].hs = trc[insts[instance].tracer].hooks,
                        ![t].ctx = IF @.on THEN @ ELSE NewCtx]
    /\ op' = Op("start_span", "ok")
    /\ UNCHANGED <<insts, scopes>> /\ ConcFrame

\* a span of another type is started: the tracer calls the same hooks
ThreadStartOther(t) ==
    /\ th[t].pc = "idle"
    /\ trc[insts[instance].tracer].hooks # <<>>
    /\ th' = [th EXCEPT ![t].pc = "emit", ![t].hs = trc[insts[instance].tracer].hooks,
                        ![t].ctx = IF @.on THEN @ ELSE NewCtx, ![t].llm = FALSE]
    /\ op' = Op("start_other", "ok")
    /\ UNCHANGED <<insts, scopes>> /\ ConcFrame

\* variant: the hook goes on to the registry whatever the span's type
HookNeverReturnsEarly(t) == FALSE
\* line 112: the span thread t is starting is not of the LLM type
HookReturnsEarly(t) == ~th[t].llm

\* _do_annotations, lines 112-113: the hook at the head of the hooks still to
\* run returns at once
ThreadHookReturn(t) ==
    /\ th[t].pc = "emit" /\ th[t].hs # <<>>
    /\ HookReturnsEarly(t)
    /\ th' = [th EXCEPT ![t].hs = Tail(@)]
    /\ op' = Op("hook_return", "ok")
    /\ UNCHANGED <<insts, scopes>> /\ ConcFrame

\* _do_annotations of the instance at the head of the hooks still to run,
\* lines 116-117: it takes ITS OWN lock, then starts iterating the list of
\* the CURRENT instance
ThreadHookLock(t) ==
    /\ th[t].pc = "emit" /\ th[t].hs # <<>>
    /\ ~HookReturnsEarly(t)
    /\ LockFree(Head(th[t].hs), t)
    /\ th' = [th EXCEPT ![t].pc = "iterate", ![t].lk = Head(th[t].hs),
                        ![t].it = instance, ![t].idx = 1]
    /\ op' = Op("hook_lock", "ok")
    /\ UNCHANGED <<insts, scopes>> /\ ConcFrame

\* lines 117-119: one turn of the for loop over the live list, or its end and
\* the release of the lock
ThreadHookNext(t) ==
    LET l == insts[th[t].it].annotations
        i == th[t].idx
    IN /\ th[t].pc = "iterate"
       /\ th' = IF i <= Len(l)
                THEN [th EXCEPT ![t].idx = i + 1,
                                ![t].applied = IF EntryMatches(l[i], th[t].ctx.id)
                                               THEN @ \cup {l[i].id} ELSE @]
                ELSE [th EXCEPT ![t].pc = "emit", ![t].lk = 0, ![t].it = 0, ![t].idx = 0,
                                ![t].hs = Tail(@)]
       /\ op' = Op("hook_next", "ok")
       /\ UNCHANGED <<insts, scopes>> /\ ConcFrame

\* every hook has run: the span is handed to the caller
ThreadSpanStarted(t) ==
    /\ th[t].pc = "emit" /\ th[t].hs = <<>>
    /\ th' = [th EXCEPT ![t] = ThreadIdle(t)]
    /\ op' = Op("span_started", "ok")
    /\ UNCHANGED <<insts, scopes>> /\ ConcFrame

RegisterLock == \E t \in Threads : ThreadRegisterLock(t)
RegisterAppend == \E t \in Threads : ThreadRegisterAppend(t)
DeregisterLock == \E t \in Threads : \E a \in 1..Len(scopes) : ThreadDeregisterLock(t, a)
DeregisterPop == \E t \in Threads : ThreadDeregisterPop(t)
Release == \E t \in Threads : ThreadRelease(t)
StartSpan == \E t \in Threads : ThreadStartSpan(t)
HookLock == \E t \in Threads : ThreadHookLock(t)
HookNext == \E t \in Threads : ThreadHookNext(t)
SpanStarted == \E t \in Threads : ThreadSpanStarted(t)

NextConc ==
    \/ EnableValid \/ Disable
    \/ RegisterLock \/ RegisterAppend \/ DeregisterLock \/ DeregisterPop \/ Release
    \/ StartSpan \/ HookLock \/ HookNext \/ SpanStarted

SpecConc == InitAnn /\ [][NextConc]_vars

\* --------------------------------------------------------------- SpecNote
\* One span, started through the span factory with any kind or directly on the
\* tracer, annotated any number of times with any combination of arguments,
\* and finished at any moment.
NoteDict == PyDict(TagA)
\* every combination of the dictionary arguments and the name, without data
NoteDictArgs ==
    [parameters : {PyNone, NoteDict}, prompt : {PyNone, NoteDict},
     input_data : {PyNone}, output_data : {PyNone},
     metadata : {PyNone, NoteDict}, metrics : {PyNone, NoteDict},
     tags : {PyNone, NoteDict}, name : {NoneV, "renamed"}]
\* every combination of input and output data: a string, a value that is
\* neither message nor document, an empty list; alone ...
NoteDataArgs ==
    [parameters : {PyNone}, prompt : {PyNone},
     input_data : {PyNone, PyStr("hi"), PyInt(5), PyList(<<>>)},
     output_data : {PyNone, PyStr("out")},
     metadata : {PyNone}, metrics : {PyNone}, tags : {PyNone}, name : {NoneV}]
\* ... and together with every other argument
NoteAllArgs ==
    [parameters : {NoteDict}, prompt : {NoteDict},
     input_data : {PyNone, PyStr("hi"), PyInt(5), PyList(<<>>)},
     output_data : {PyNone, PyStr("out")},
     metadata : {NoteDict}, metrics : {NoteDict}, tags : {NoteDict}, name : {"renamed"}]
NoteArgs == NoteDictArgs \cup NoteDataArgs \cup NoteAllArgs
NoteKinds == {"task", "retrieval"}

NoteStart ==
    /\ spans = <<>>
    /\ \/ \E k \in ModelKinds : StartModelSpan(k, NoneV, NoneV, NoneV, NoneV, NoneV, NoneV)
       \/ \E k \in NoteKinds : StartPlainSpan(k, NoneV, NoneV, NoneV, NoneV)
       \/ StartTracerSpan(LLM, NoneV)
NoteAnnotate == \E i \in 0..Len(spans) : \E a \in NoteArgs : AnnotateSpan(i, a)

NextNote == NoteStart \/ NoteAnnotate \/ FinishSpan

SpecNote == InitAnn /\ [][NextNote]_vars

\* --------------------------------------------------------------- SpecTags
\* One task span whose tags are annotated any number of times: with nothing,
\* an empty dictionary, a value that is no dictionary, and dictionaries whose
\* keys overlap or are disjoint; one of them has an int key.
TagB == SK("b") :> 5
TagC == SK("c") :> 7
TagInt == IK("1") :> 9
TagArgs ==
    {PyNone, PyDict(EmptyDict), PyStr("a:1"),
     PyDict(TagA), PyDict(TagAB), PyDict(TagB), PyDict(TagC), PyDict(TagInt)}

TagsStart == spans = <<>> /\ StartPlainSpan("task", NoneV, NoneV, NoneV, NoneV)
TagsAnnotate ==
    \E i \in 0..Len(spans) : \E t \in TagArgs : AnnotateSpan(i, [NoArgs EXCEPT !.tags = t])

NextTags == TagsStart \/ TagsAnnotate \/ FinishSpan

SpecTags == InitAnn /\ [][NextTags]_vars

\* -------------------------------------------------------------- SpecKinds
\* Spans of every kind started through the span factory, nested up to
\* MaxKindSpans deep, with and without a model name and a model provider,
\* and finished in any order the tracer allows.
MaxKindSpans == 2
ModelNames == {NoneV, "gpt"}
ModelProviders == {NoneV, "openai"}

KindsStartModel ==
    /\ Len(spans) < MaxKindSpans
    /\ \E k \in ModelKinds, mn \in ModelNames, mp \in ModelProviders :
           StartModelSpan(k, mn, NoneV, mp, NoneV, "m1", NoneV)
KindsStartPlain ==
    /\ Len(spans) < MaxKindSpans
    /\ \E k \in PlainKinds : StartPlainSpan(k, NoneV, NoneV, "m1", NoneV)

NextKinds == KindsStartModel \/ KindsStartPlain \/ FinishSpan

SpecKinds == InitAnn /\ [][NextKinds]_vars

\* --------------------------------------------------------------- SpecTree
\* Spans nested up to MaxSpans deep: task spans started through the span
\* factory with or without a session id, an application id and a propagated
\* parent, spans an integration started (LLM type, no tag of the factory) and
\* spans of another type, finished in any order the tracer allows.  The
\* process may have DD_LLMOBS_ML_APP configured at import.
MaxSpans == 3
SessionIds == {NoneV, "s1", "s2"}
AppIds == {NoneV, "m1"}
PropagatedIds == {NoneV, "p7"}
WEB == "web"                                  \* SpanTypes.WEB

InitTree ==
    /\ \E a \in MlApps : InitCfg([EmptyCfg EXCEPT !.ml_app = a])
    /\ env = [enabled |-> NoneV, app_name |-> NoneV, rc |-> NoneV]

TreeStartSession ==
    /\ Len(spans) < MaxSpans
    /\ \E s \in SessionIds : StartPlainSpan("task", NoneV, s, NoneV, NoneV)
TreeStartApp ==
    /\ Len(spans) < MaxSpans
    /\ \E m \in AppIds \ {NoneV} : StartPlainSpan("task", NoneV, NoneV, m, NoneV)
TreeStartPropagated ==
    /\ Len(spans) < MaxSpans
    /\ \E p \in PropagatedIds \ {NoneV} : StartPlainSpan("task", NoneV, NoneV, NoneV, p)
TreeStartTraced ==
    /\ Len(spans) < MaxSpans
    /\ \E ty \in {LLM, WEB} : StartTracerSpan(ty, NoneV)

NextTree == TreeStartSession \/ TreeStartApp \/ TreeStartPropagated \/ TreeStartTraced \/ FinishSpan

SpecTree == InitTree /\ [][NextTree]_vars

\* --------------------------------------------------------------- SpecEval
\* submit_evaluation called before, between and after one enable() and
\* disable(), with or without a credential, until the evaluation-metric
\* writer holds MaxEvals records.  A call is a valid call with up to two of its
\* arguments replaced, so that two validations can fail at once.
MaxEvals == 1
BothIds == (SK("span_id") :> "12") @@ (SK("trace_id") :> "34")
ValidCall ==
    [span_context |-> PyDict(BothIds), label |-> "toxicity", metric_type |-> PyStr("score"),
     value |-> PyInt(1), tags |-> PyNone, ml_app |-> NoneV, timestamp_ms |-> PyNone,
     metadata |-> PyNone]
ArgValues ==
    [span_context |-> {PyStr("12"), PyDict(SK("span_id") :> "12")},
     label |-> {""},
     metric_type |-> {PyStr("categorical"), PyStr("numerical"), PyStr("Score"), PyStr("rank"),
                      PyInt(3)},
     value |-> {PyStr("good"), PyBool(TRUE)},
     tags |-> {PyStr("env:prod"),
               PyDict((SK("ml_app") :> PyStr("mine")) @@ (SK("env") :> PyStr("prod"))
                      @@ (SK("n") :> PyInt(1)) @@ (IK("7") :> PyStr("seven")))},
     ml_app |-> {"other"},
     timestamp_ms |-> {PyInt(-1), PyInt(0), PyInt(5), PyStr("5")},
     metadata |-> {PyDict(TagA), PyStr("notes")}]
EvalArgs ==
    {ValidCall} \cup
    UNION {UNION {{[[ValidCall EXCEPT ![f] = v] EXCEPT ![g] = w] :
                      v \in ArgValues[f], w \in ArgValues[g]} : g \in DOMAIN ArgValues}
           : f \in DOMAIN ArgValues}

EvalEnable ==
    /\ instance = 1
    /\ \E k \in ApiKeys : Enable("app", FALSE, FALSE, NoneV, k, NoneV)
EvalSubmit ==
    /\ Len(evalq) < MaxEvals
    /\ \E a \in EvalArgs : SubmitEvaluation(a)

NextEval == EvalEnable \/ Disable \/ EvalSubmit

SpecEval == InitAnn /\ [][NextEval]_vars

\* ================================================================ claims
CurInst == insts[instance]
ForkStep == op'.name = "fork" /\ nForks' = nForks + 1
EnableStep == op'.name = "enable"
DisableStep == op'.name = "disable"

\* C1: when the after-fork handler of an instance runs, the instance's span
\* writer, evaluation-metric writer and evaluator runner become newly created
\* objects, distinct from every object that existed before the fork; the
\* instance's trace filter refers to the new span writer and the new runner;
\* and if the service was enabled the new writers are running afterwards and
\* no status error was signalled while starting them.
C1_ForkRecreatesWriters ==
    [][ForkStep =>
        \A k \in 1..Len(forkHooks) :
            LET b == insts'[forkHooks[k]]
                old == 1..Len(objs)
            IN /\ b.sw \notin old /\ b.ew \notin old /\ b.er \notin old
               /\ Cardinality({b.sw, b.ew, b.er}) = 3
               /\ b.psw = b.sw /\ b.per = b.er
               /\ enabled => /\ objs'[b.sw] = "running"
                             /\ objs'[b.ew] = "running"
                             /\ op'.res = "ok"]_vars

C1_Witness ==
    /\ op.name = "fork" /\ enabled
    /\ Contains(forkHooks, instance)
    /\ CurInst.sw > 3 * Len(insts)
    /\ CurInst.psw = CurInst.sw
    /\ objs[CurInst.sw] = "running" /\ objs[CurInst.ew] = "running"

\* C2: in every state in which the service is enabled, every enable() so far
\* having used the one global tracer, a trace filter installed in that tracer's
\* chain forwards to the current instance's span writer, and that writer is
\* running.
C2_FilterFeedsCurrentWriter ==
    (enabled /\ \A i \in 1..Len(insts) : insts[i].tracer = GlobalTracer) =>
        /\ objs[CurInst.sw] = "running"
        /\ \E k \in 1..Len(trc[CurInst.tracer].filters) :
              insts[trc[CurInst.tracer].filters[k]].psw = CurInst.sw

\* C3: enable() called while the service is enabled changes nothing: instance,
\* writers, filters, hooks, enabled flag and configuration are as before.
C3_EnableWhenEnabledIsNoOp ==
    [][EnableStep /\ enabled => UNCHANGED progVars]_vars

C3_Witness == op.name = "enable" /\ op.res = "noop" /\ enabled

EnableRejectedAsRequired ==
    /\ (op'.res = "rejected") <=>
          \/ Falsy(cfg'.ml_app)
          \/ cfg'.agentless /\ (Falsy(cfg'.api_key) \/ Falsy(cfg'.site))
    /\ op'.res = "rejected" =>
          /\ ~enabled'
          /\ instance' = instance
          /\ insts' = insts
          /\ objs' = objs
          /\ ext'.patched = ext.patched

\* C6 as stated, for enable() called while the service is not enabled: it is
\* rejected exactly when no application id is configured, or the delivery mode
\* is agentless and the credential or the site is missing; after a rejected
\* enable() the service is still disabled, the instance is the one from
\* before, no writer was started and no integration was patched.
C6_EnableRejectionAsStated ==
    [][EnableStep /\ ~enabled => EnableRejectedAsRequired]_vars

\* C6 amended: the same, for enable() called while the service is not enabled
\* and DD_LLMOBS_ENABLED is not set to a false value.
C6_EnableRejection ==
    [][EnableStep /\ ~enabled /\ ~EnvDisabled => EnableRejectedAsRequired]_vars

C6_Witness ==
    /\ op.name = "enable" /\ op.res = "rejected" /\ ~enabled
    /\ cfg.agentless /\ Truthy(cfg.ml_app) /\ Truthy(cfg.api_key) /\ Falsy(cfg.site)

\* ---------------------------------------------------- annotation claims
TraceStepDone == op.name = "trace" /\ span.type = LLM
HookRegistered == trc[CurInst.tracer].hooks # <<>>
SpanTagDict(sp) == IF TAGS \in DOMAIN sp.meta THEN sp.meta[TAGS].v ELSE EmptyDict
\* scope a is open, was registered with the current instance, and recorded the
\* ambient id of the active trace context
ScopePending(a) ==
    /\ scopes[a].state = "open"
    /\ scopes[a].inst = instance
    /\ scopes[a].ctx = ctx.id
\* the tags of the pending scopes 1..n, merged in registration order
RECURSIVE PendingTags(_)
PendingTags(n) ==
    IF n = 0 THEN EmptyDict
    ELSE IF ScopePending(n) /\ scopes[n].kw.tags.ty = "dict"
         THEN [k \in DOMAIN PendingTags(n - 1) \cup DOMAIN scopes[n].kw.tags.v |->
                  IF k \in DOMAIN scopes[n].kw.tags.v
                  THEN scopes[n].kw.tags.v[k]
                  ELSE PendingTags(n - 1)[k]]
         ELSE PendingTags(n - 1)
TwoPending == \E a, b \in 1..Len(scopes) : a < b /\ ScopePending(a) /\ ScopePending(b)

\* C5: after disable() has returned, a span of the LLM type started on the
\* tracer receives no pending annotation, even with a scope still open.
C5_NoAnnotationAfterDisable ==
    (~enabled /\ instance > 1 /\ TraceStepDone) => span.applied = {}

C8_CloseRemovesOwnEntry ==
    [][op'.name = "deregister" =>
        LET old == insts[instance].annotations
            new == insts'[instance'].annotations
        IN /\ instance' = instance
           /\ new = SelectSeq(old, LAMBDA e : e.id # op'.id)
           /\ Len(new) >= Len(old) - 1
           /\ op'.res \in {"ok", "not_found"}
           /\ op'.res = "not_found" => new = old
           /\ \A i \in 1..Len(insts) : i # instance => insts'[i] = insts[i]]_vars

C8_Witness ==
    /\ op.name = "deregister" /\ op.res = "ok" /\ op.id = 1
    /\ Len(CurInst.annotations) = 1
    /\ CurInst.annotations[1].id = 2 /\ CurInst.annotations[1].ctx = 1

\* C9 as stated: with the instance the scope was registered with still the
\* current one, the scope's payload is applied to an LLM span at its start if
\* and only if the scope is open and recorded the ambient id of the active
\* trace context; a closed scope gives the span nothing.
C9_AppliedIffPending ==
    TraceStepDone =>
        \A a \in 1..Len(scopes) :
            /\ scopes[a].state = "closed" => a \notin span.applied
            /\ (scopes[a].state = "open" /\ scopes[a].inst = instance) =>
                  (a \in span.applied <=> scopes[a].ctx = ctx.id)

\* C9 amended: if and only if, in addition, a span-start hook of the service
\* is registered on the instance's tracer.  A payload that is applied leaves
\* its tags on the span, and a span nothing is applied to stays untouched.
C9_AppliedIffPendingAndHooked ==
    TraceStepDone =>
        /\ \A a \in 1..Len(scopes) :
            /\ scopes[a].state = "closed" => a \notin span.applied
            /\ (scopes[a].state = "open" /\ scopes[a].inst = instance) =>
                  /\ a \in span.applied <=> (scopes[a].ctx = ctx.id /\ HookRegistered)
                  /\ (a \in span.applied /\ scopes[a].kw.tags.ty = "dict") =>
                        DOMAIN scopes[a].kw.tags.v \subseteq DOMAIN SpanTagDict(span)
        /\ span.applied = {} => (span.meta = EmptyDict /\ span.name = "span")

C9_Witness ==
    /\ TraceStepDone /\ HookRegistered /\ Len(scopes) = 2
    /\ scopes[1].state = "open" /\ scopes[1].inst = instance /\ scopes[1].ctx # ctx.id
    /\ scopes[2].state = "open" /\ scopes[2].inst = instance /\ scopes[2].ctx = ctx.id
    /\ span.applied = {2}

\* C10: no thread appends to or removes from a registry list while another
\* thread is in the middle of iterating that list inside the span-start hook.
C10_NoMutationDuringIteration ==
    [][\A t \in Threads :
          (th[t].pc = "iterate" /\ th'[t] = th[t]) =>
              insts'[th[t].it].annotations = insts[th[t].it].annotations]_vars

\* -------------------------------------------------- span annotation claims
IoTags ==
    {INPUT_MESSAGES, OUTPUT_MESSAGES, INPUT_DOCUMENTS, OUTPUT_DOCUMENTS, INPUT_VALUE, OUTPUT_VALUE}
TagsOf(sp) == DOMAIN sp.meta

\* C11: once a span is marked finished, every annotate call on it, with any
\* combination of tags, metadata, metrics, prompt, parameters, name override,
\* input data and output data, leaves the span's tag map and name unchanged.
C11_FinishedSpanUntouched ==
    [][\A i \in 1..Len(spans) :
          spans[i].finished =>
              /\ spans'[i].meta = spans[i].meta
              /\ spans'[i].name = spans[i].name]_vars

C11_Witness ==
    /\ Len(spans) = 1 /\ spans[1].finished /\ spans[1].type = LLM
    /\ op.name = "annotate" /\ op.id = 1 /\ op.tags = NoteDict
    /\ TAGS \notin TagsOf(spans[1])
    /\ spans[1].name # "renamed"

KindIs(sp, kind) == GetTag(sp, SPAN_KIND) = PyStr(kind)

\* C13: after any sequence of annotate calls a span carries input/output tags
\* only of the shape belonging to its kind: messages tags only on llm spans,
\* input-documents only on embedding spans, output-documents only on retrieval
\* spans, plain input/output value tags never on llm spans; and a span without
\* a kind tag carries no input/output tag at all.
C13_IoTagsFollowKind ==
    \A i \in 1..Len(spans) :
        LET sp == spans[i]
        IN /\ (INPUT_MESSAGES \in TagsOf(sp) \/ OUTPUT_MESSAGES \in TagsOf(sp)) => KindIs(sp, "llm")
           /\ INPUT_DOCUMENTS \in TagsOf(sp) => KindIs(sp, "embedding")
           /\ OUTPUT_DOCUMENTS \in TagsOf(sp) => KindIs(sp, "retrieval")
           /\ KindIs(sp, "llm") => (INPUT_VALUE \notin TagsOf(sp) /\ OUTPUT_VALUE \notin TagsOf(sp))
           /\ KindIs(sp, "retrieval") => OUTPUT_VALUE \notin TagsOf(sp)
           /\ KindIs(sp, "embedding") => INPUT_VALUE \notin TagsOf(sp)
           /\ SPAN_KIND \notin TagsOf(sp) => TagsOf(sp) \cap IoTags = {}

C13_Witness ==
    /\ Len(spans) = 1 /\ KindIs(spans[1], "retrieval")
    /\ op.name = "annotate" /\ op.id = 1
    /\ TagsOf(spans[1]) \cap IoTags = {INPUT_VALUE, OUTPUT_DOCUMENTS}

\* the right-biased shallow merge of two dictionaries, keys as JSON writes them
RightMerge(old, new) ==
    LET m == [k \in DOMAIN old \cup DOMAIN new |-> IF k \in DOMAIN new THEN new[k] ELSE old[k]]
    IN JsonDumps(m)
SuppliedDicts == {t.v : t \in {x \in TagArgs : x.ty = "dict"}}

\* C12: every tags annotation of an unfinished span leaves the span's tag
\* dictionary equal to the right-biased shallow merge of the dictionary it had
\* and the supplied one, so that after any sequence of annotations the
\* dictionary is the merge of the supplied dictionaries in call order: keys of
\* earlier calls that the call does not mention are kept, a key of the call
\* carries the call's value; a call that supplies no dictionary or an empty one
\* changes nothing; and merging two dictionaries with disjoint keys gives the
\* same result in either order.
C12_TagsMergeRightBiased ==
    [][(op'.name = "annotate" /\ op'.id # 0) =>
        LET old == SpanTagDict(spans[op'.id])
            new == SpanTagDict(spans'[op'.id])
            d == op'.tags
        IN /\ (~spans[op'.id].finished /\ d.ty = "dict" /\ DOMAIN d.v # {}) =>
                  /\ new = RightMerge(old, d.v)
                  /\ \A k \in DOMAIN old \ DOMAIN JsonDumps(d.v) : new[k] = old[k]
                  /\ \A k \in DOMAIN d.v : new[JsonKey(k)] = d.v[k]
           /\ (spans[op'.id].finished \/ d.ty # "dict" \/ DOMAIN d.v = {}) =>
                  spans'[op'.id].meta = spans[op'.id].meta
           /\ \A x, y \in SuppliedDicts :
                  DOMAIN JsonDumps(x) \cap DOMAIN JsonDumps(y) = {} =>
                      SpanTagDict(TagSpanTags(TagSpanTags(spans[op'.id], PyDict(x)), PyDict(y)))
                      = SpanTagDict(TagSpanTags(TagSpanTags(spans[op'.id], PyDict(y)), PyDict(x)))
           /\ (old = TagA /\ d = PyDict(TagAB) /\ ~spans[op'.id].finished) => new = TagAB]_vars

\* {a:2,b:3} was supplied and {a:1} after it: b keeps the earlier call's value
\* and a carries the later call's
C12_Witness ==
    /\ Len(spans) = 1 /\ ~spans[1].finished
    /\ op.name = "annotate" /\ op.id = 1 /\ op.tags = PyDict(TagA)
    /\ SpanTagDict(spans[1]) = (SK("a") :> 1) @@ (SK("b") :> 3)

\* ------------------------------------------------------ span factory claims
NewSpan == spans'[Len(spans')]
\* the step is a span start of kind k whose caller supplies neither a model
\* name nor a model provider
StartsWithoutModel(k) ==
    \/ /\ k \in ModelKinds
       /\ StartModelSpan(k, NoneV, NoneV, NoneV, NoneV, "m1", NoneV)
    \/ /\ k \in PlainKinds
       /\ StartPlainSpan(k, NoneV, NoneV, "m1", NoneV)
NoModelTag(sp) == MODEL_NAME \notin TagsOf(sp) /\ MODEL_PROVIDER \notin TagsOf(sp)

\* C14 as stated: for every span kind, starting a span sets the span-kind tag
\* to that kind, and sets neither the model-name nor the model-provider tag
\* when the caller supplies none.
C14_KindTagAndNoModelTags ==
    [][\A k \in SpanKinds :
          StartsWithoutModel(k) => (KindIs(NewSpan, k) /\ NoModelTag(NewSpan))]_vars

\* C14 amended: starting a span of any kind sets the span-kind tag to that
\* kind; when the caller supplies no model name and no model provider, a tool,
\* task, agent, workflow or retrieval span gets neither model tag, and an llm
\* or embedding span gets both with the value "custom"; a model name or
\* provider the caller supplies is the tag's value.
C14_KindTagAndDefaultModelTags ==
    [][/\ \A k \in SpanKinds :
            StartsWithoutModel(k) =>
                /\ KindIs(NewSpan, k) /\ NewSpan.name = k
                /\ k \in PlainKinds => NoModelTag(NewSpan)
                /\ k \in ModelKinds =>
                      /\ GetTag(NewSpan, MODEL_NAME) = PyStr("custom")
                      /\ GetTag(NewSpan, MODEL_PROVIDER) = PyStr("custom")
       /\ \A k \in ModelKinds :
            StartModelSpan(k, "gpt", NoneV, "openai", NoneV, "m1", NoneV) =>
                /\ KindIs(NewSpan, k)
                /\ GetTag(NewSpan, MODEL_NAME) = PyStr("gpt")
                /\ GetTag(NewSpan, MODEL_PROVIDER) = PyStr("openai")]_vars

\* an embedding span started inside a task span, no model argument given in
\* this specification ever being "custom"
C14_Witness ==
    /\ Len(spans) = 2 /\ op.name = "start_span" /\ op.id = 2
    /\ KindIs(spans[1], "task") /\ NoModelTag(spans[1])
    /\ KindIs(spans[2], "embedding")
    /\ GetTag(spans[2], MODEL_NAME) = PyStr("custom")
    /\ GetTag(spans[2], MODEL_PROVIDER) = PyStr("custom")

\* the spans from p upward: p, its parent, and so on
RECURSIVE AncestorsOf(_)
AncestorsOf(p) == IF p = 0 THEN {} ELSE {p} \cup AncestorsOf(spans[p].parent)
\* the nearest of them that satisfies Q, 0 when there is none
NearestOf(p, Q(_)) ==
    LET c == {a \in AncestorsOf(p) : Q(a)}
    IN IF c = {} THEN 0 ELSE CHOOSE a \in c : \A b \in c : b \in AncestorsOf(a)
CarriesSession(a) == SESSION_ID \in TagsOf(spans[a])
CarriesApp(a) == ML_APP \in TagsOf(spans[a])
IsLLMObsSpan(a) == spans[a].type = LLM
\* the value a span start has to give a tag: v, or no tag when v is none
TagIs(sp, key, v) == IF v = NoneV THEN key \notin TagsOf(sp) ELSE GetTag(sp, key) = PyStr(v)

\* C15: starting a span resolves its session id as the explicit argument when
\* one is given, otherwise the session id of the nearest ancestor span
\* carrying one, otherwise none; and its application id as the explicit
\* argument when given, otherwise the nearest ancestor's, otherwise the
\* process-wide default; an explicit value is never replaced by an inherited
\* or default one, at any depth of nesting.
C15_SessionAndAppResolution ==
    [][\A s \in SessionIds, m \in AppIds, p \in PropagatedIds :
          StartPlainSpan("task", NoneV, s, m, p) =>
              LET ns == NearestOf(active, CarriesSession)
                  na == NearestOf(active, CarriesApp)
              IN /\ TagIs(NewSpan, SESSION_ID,
                          IF s # NoneV THEN s
                          ELSE IF ns # 0 THEN spans[ns].meta[SESSION_ID].v
                          ELSE NoneV)
                 /\ TagIs(NewSpan, ML_APP,
                          IF m # NoneV THEN m
                          ELSE IF na # 0 THEN spans[na].meta[ML_APP].v
                          ELSE cfg.ml_app)
                 /\ s # NoneV => GetTag(NewSpan, SESSION_ID) = PyStr(s)
                 /\ m # NoneV => GetTag(NewSpan, ML_APP) = PyStr(m)]_vars

\* three levels: a span with session "s1", a span of another type below it,
\* and below that a span started with the explicit session "s2"; and the
\* same chain with no explicit session at the third level
C15_Witness ==
    /\ Len(spans) = 3 /\ op.name = "start_span" /\ op.id = 3
    /\ spans[2].parent = 1 /\ spans[3].parent = 2
    /\ GetTag(spans[1], SESSION_ID) = PyStr("s1")
    /\ spans[2].type = WEB
    /\ GetTag(spans[3], SESSION_ID) = PyStr("s2")
    /\ GetTag(spans[3], ML_APP) = PyStr("app")

\* C16: starting a span writes the logical-parent-id tag if and only if the
\* span does not already carry the propagated-parent tag; the value written
\* is the id of the nearest ancestor span of the LLMObs type, or "undefined"
\* when there is none; when the propagated-parent tag is present, span start
\* leaves the logical-parent-id tag untouched.
C16_LogicalParentId ==
    [][\A s \in SessionIds, m \in AppIds, p \in PropagatedIds :
          StartPlainSpan("task", NoneV, s, m, p) =>
              LET nl == NearestOf(active, IsLLMObsSpan)
              IN /\ PARENT_ID_KEY \in TagsOf(NewSpan) <=> p = NoneV
                 /\ p = NoneV =>
                       /\ PROPAGATED_PARENT_ID_KEY \notin TagsOf(NewSpan)
                       /\ GetTag(NewSpan, PARENT_ID_KEY) =
                              PyStr(IF nl = 0 THEN "undefined" ELSE SpanIdStr(nl))
                 /\ p # NoneV => GetTag(NewSpan, PROPAGATED_PARENT_ID_KEY) = PyStr(p)]_vars

\* a span that carries the propagated-parent tag and no logical parent id, a
\* span of another type below it, and below that a span whose logical parent
\* is the first one
C16_Witness ==
    /\ Len(spans) = 3 /\ op.name = "start_span" /\ op.id = 3
    /\ spans[2].parent = 1 /\ spans[3].parent = 2
    /\ GetTag(spans[1], PROPAGATED_PARENT_ID_KEY) = PyStr("p7")
    /\ PARENT_ID_KEY \notin TagsOf(spans[1])
    /\ spans[2].type = WEB
    /\ GetTag(spans[3], PARENT_ID_KEY) = PyStr(SpanIdStr(1))

\* ---------------------------------------------------- evaluation claims
SubmitStep == op'.name = "submit_evaluation"
SubmitDone == op.name = "submit_evaluation"
Enqueued == Len(evalq') - Len(evalq)
\* the validation rules of submit_evaluation, each on its own
ServiceEnabled == enabled
CredentialConfigured == cfg.api_key # NoneV /\ cfg.api_key # ""
SpanRefIsMapping(a) == a.span_context.ty = "dict"
SpanRefHasIds(a) ==
    /\ SpanRefIsMapping(a)
    /\ {SK("span_id"), SK("trace_id")} \subseteq DOMAIN a.span_context.v
SpanRefOk(a) == SpanRefIsMapping(a) /\ SpanRefHasIds(a)
AppResolvable(a) == a.ml_app \notin {NoneV, ""} \/ cfg.ml_app \notin {NoneV, ""}
TimestampOk(a) ==
    a.timestamp_ms = PyNone \/ (a.timestamp_ms.ty = "int" /\ a.timestamp_ms.v >= 0)
LabelOk(a) == a.label \notin {NoneV, ""}
KindGiven(a) ==
    IF a.metric_type.ty # "str" THEN "none"
    ELSE IF a.metric_type.v \in {"categorical"} THEN "categorical"
    ELSE IF a.metric_type.v \in {"score", "Score", "numerical"} THEN "score"
    ELSE "none"
KindOk(a) == KindGiven(a) # "none"
IsNumber(v) == v.ty \in {"int", "float", "bool"}
ValueOk(a) ==
    /\ KindGiven(a) = "categorical" => a.value.ty = "str"
    /\ KindGiven(a) = "score" => IsNumber(a.value)
TagsOk(a) == a.tags = PyNone \/ a.tags.ty = "dict"
AllValid(a) ==
    /\ ServiceEnabled /\ CredentialConfigured /\ SpanRefOk(a) /\ AppResolvable(a)
    /\ TimestampOk(a) /\ LabelOk(a) /\ KindOk(a) /\ ValueOk(a) /\ TagsOk(a)

\* C17: each submit_evaluation call enqueues at most one record on the
\* evaluation-metric writer: exactly one when every validation passes and none
\* when any validation fails; nothing is enqueued while the service is
\* disabled or while no backend credential is configured.
C17_AtMostOneRecord ==
    [][SubmitStep =>
        /\ Enqueued \in {0, 1}
        /\ SubSeq(evalq', 1, Len(evalq)) = evalq
        /\ AllValid(op'.args) <=> Enqueued = 1
        /\ (~ServiceEnabled \/ ~CredentialConfigured) => evalq' = evalq
        /\ Enqueued = 1 => evalq'[Len(evalq')].writer = insts[instance].ew]_vars

C17_Witness ==
    /\ SubmitDone /\ op.res = "ok" /\ enabled
    /\ op.args.tags.ty = "dict" /\ op.args.metadata.ty = "dict"
    /\ Len(evalq) = 1
    /\ evalq[1].writer = insts[instance].ew
    /\ evalq[1].rec.label = "toxicity"

\* the rule a signal of submit_evaluation belongs to, in the numbering of the
\* validation order as stated: 3 is the span reference, mapping and ids alike
StatedRule(signal) ==
    CASE signal = "disabled" -> 1
      [] signal = "no_api_key" -> 2
      [] signal \in {"span_context_not_dict", "ids_missing"} -> 3
      [] signal = "no_ml_app" -> 4
      [] signal = "bad_timestamp" -> 5
      [] signal = "no_label" -> 6
      [] signal = "bad_metric_type" -> 7
      [] signal = "bad_value" -> 8
      [] signal = "bad_tags" -> 9
      [] OTHER -> 0
\* the earliest rule a call violates, in the order as stated
StatedFirstFailure(a) ==
    IF ~ServiceEnabled THEN 1
    ELSE IF ~CredentialConfigured THEN 2
    ELSE IF ~SpanRefOk(a) THEN 3
    ELSE IF ~AppResolvable(a) THEN 4
    ELSE IF ~TimestampOk(a) THEN 5
    ELSE IF ~LabelOk(a) THEN 6
    ELSE IF ~KindOk(a) THEN 7
    ELSE IF ~ValueOk(a) THEN 8
    ELSE IF ~TagsOk(a) THEN 9
    ELSE 0
\* the signal of the earliest rule a call violates, the check of the ids
\* coming after the timestamp
FirstFailureSignal(a) ==
    IF ~ServiceEnabled THEN "disabled"
    ELSE IF ~CredentialConfigured THEN "no_api_key"
    ELSE IF ~SpanRefIsMapping(a) THEN "span_context_not_dict"
    ELSE IF ~AppResolvable(a) THEN "no_ml_app"
    ELSE IF ~TimestampOk(a) THEN "bad_timestamp"
    ELSE IF ~SpanRefHasIds(a) THEN "ids_missing"
    ELSE IF ~LabelOk(a) THEN "no_label"
    ELSE IF ~KindOk(a) THEN "bad_metric_type"
    ELSE IF ~ValueOk(a) THEN "bad_value"
    ELSE IF ~TagsOk(a) THEN "bad_tags"
    ELSE "ok"

LastRecord == evalq'[Len(evalq')].rec

\* C19: a submit_evaluation call with metric kind "numerical" and a numeric
\* value, all other arguments valid, is accepted: exactly one record is
\* enqueued, its metric kind is "score" and its value is stored under the
\* score value field; no record is ever stored with a numerical kind or field.
C19_NumericalStoredAsScore ==
    [][SubmitStep =>
        /\ (op'.args.metric_type = PyStr("numerical") /\ IsNumber(op'.args.value)
              /\ AllValid(op'.args)) =>
               /\ op'.res = "ok" /\ Enqueued = 1
               /\ LastRecord.metric_type = "score"
               /\ LastRecord.value_key = "score_value"
               /\ LastRecord.value = op'.args.value
        /\ \A i \in 1..Len(evalq') :
               /\ evalq'[i].rec.metric_type \in {"categorical", "score"}
               /\ evalq'[i].rec.value_key \in {"categorical_value", "score_value"}]_vars

C19_Witness ==
    /\ SubmitDone /\ op.res = "ok"
    /\ op.args.metric_type = PyStr("numerical") /\ op.args.value = PyInt(1)
    /\ Len(evalq) = 1
    /\ evalq[1].rec.metric_type = "score" /\ evalq[1].rec.value_key = "score_value"
    /\ evalq[1].rec.value = PyInt(1)

\* C20: submit_evaluation enqueues a record only if the value's type matches
\* the normalised metric kind: a string for categorical, a number for score
\* (the numerical alias included); a categorical kind with a numeric value,
\* and a score or numerical kind with a string value, enqueue nothing.
C20_ValueTypeMatchesKind ==
    [][SubmitStep =>
        LET a == op'.args
        IN /\ Enqueued = 1 =>
                 \/ KindGiven(a) = "categorical" /\ a.value.ty = "str"
                      /\ LastRecord.metric_type = "categorical"
                 \/ KindGiven(a) = "score" /\ IsNumber(a.value)
                      /\ LastRecord.metric_type = "score"
           /\ (KindGiven(a) = "categorical" /\ IsNumber(a.value)) => Enqueued = 0
           /\ (KindGiven(a) = "score" /\ a.value.ty = "str") => Enqueued = 0
           /\ (AllValid([a EXCEPT !.value = IF KindGiven(a) = "score" THEN PyInt(1)
                                            ELSE PyStr("good")])
                 /\ ~ValueOk(a)) => op'.res = "bad_value"]_vars

\* a categorical metric with a numeric value, and nothing else wrong
C20_Witness ==
    /\ SubmitDone /\ enabled /\ CredentialConfigured
    /\ op.args = [ValidCall EXCEPT !.metric_type = PyStr("categorical")]
    /\ op.res = "bad_value"
    /\ evalq = <<>>

\* ensure_text takes the key and the value of a caller tag
Coercible(tags, k) == k[1] = "str" /\ tags[k].ty = "str"
DefaultTagKeys == {SK("ddtrace.version"), SK("ml_app")}

\* C21: when submit_evaluation is given a tags mapping and every other
\* validation passes, a tag whose key or value cannot be coerced to text is
\* skipped on its own and the record is still enqueued; the record's tags are
\* the default tags (library version, application id) overlaid by every caller
\* tag that was coerced, the caller's value winning for a default's key.
C21_TagsCoercedOneByOne ==
    [][(SubmitStep /\ op'.args.tags.ty = "dict" /\ AllValid(op'.args)) =>
        LET given == op'.args.tags.v
            good == {k \in DOMAIN given : Coercible(given, k)}
            tags == LastRecord.tags
        IN /\ op'.res = "ok" /\ Enqueued = 1
           /\ DOMAIN tags = DefaultTagKeys \cup good
           /\ \A k \in good : tags[k] = given[k].v
           /\ \A k \in DefaultTagKeys \ good :
                  tags[k] = IF k = SK("ml_app") THEN LastRecord.ml_app ELSE DDTRACE_VERSION
           /\ \A k \in DOMAIN given \ good : k \notin DOMAIN tags]_vars

\* a mapping with a good tag, a tag that overrides a default, a tag whose
\* value is an int and a tag whose key is an int
C21_Witness ==
    /\ SubmitDone /\ op.res = "ok" /\ Len(evalq) = 1
    /\ op.args.tags.ty = "dict"
    /\ DOMAIN op.args.tags.v = {SK("ml_app"), SK("env"), SK("n"), IK("7")}
    /\ evalq[1].rec.ml_app = "app"
    /\ evalq[1].rec.tags = (SK("ddtrace.version") :> DDTRACE_VERSION)
                           @@ (SK("ml_app") :> "mine") @@ (SK("env") :> "prod")

\* ------------------------------------------------ distributed propagation
TRACE_ID_HEADER == "x-datadog-trace-id"
PARENT_ID_HEADER == "x-datadog-parent-id"
TAGS_HEADER == "x-datadog-tags"

\* variant: the tracer's current span is injected whatever span is given
InjectTargetCurrent(i) == active
\* lines 893-894: span=None (i = 0) stands for the tracer's current span
InjectTarget(i) == IF i = 0 THEN active ELSE i

\* _inject_llmobs_parent_id: the span's own id when it is of the LLM type, else
\* the id of its nearest ancestor of that type, else "undefined"
InjectLLMObsParentId(i) ==
    IF spans[i].type = LLM THEN SpanIdStr(i)
    ELSE IF GetLLMObsParentId(spans[i].parent) # NoneV THEN GetLLMObsParentId(spans[i].parent)
    ELSE "undefined"

\* span.context after _inject_llmobs_parent_id wrote the side-channel (line 898)
InjectedContext(i) ==
    [trace_id |-> PyInt(spans[i].trace), span_id |-> PyInt(i),
     meta |-> PROPAGATED_PARENT_ID_KEY :> InjectLLMObsParentId(i)]

\* HTTPPropagator.inject: the ids written as decimal text, the side-channel as
\* key=value text, over whatever the headers held
EncodeTags(meta) ==
    IF PROPAGATED_PARENT_ID_KEY \in DOMAIN meta
    THEN PROPAGATED_PARENT_ID_KEY \o "=" \o meta[PROPAGATED_PARENT_ID_KEY]
    ELSE ""
PropagatorInject(c, h) ==
    DictUpdate(h, (TRACE_ID_HEADER :> ToString(c.trace_id.v))
                  @@ (PARENT_ID_HEADER :> ToString(c.span_id.v))
                  @@ (TAGS_HEADER :> EncodeTags(c.meta)))

\* HTTPPropagator.extract: the ids parsed back from their text, None for a
\* header that is absent or no number; the side-channel parsed from key=value
KnownIds == 1..(100 + Len(spans))
ParseId(h, k) ==
    IF k \in DOMAIN h /\ \E n \in KnownIds : ToString(n) = h[k]
    THEN PyInt(CHOOSE n \in KnownIds : ToString(n) = h[k])
    ELSE PyNone
KnownParentIds == {SpanIdStr(i) : i \in 1..Len(spans)} \cup {"undefined"}
DecodeTags(h) ==
    IF TAGS_HEADER \in DOMAIN h
       /\ \E v \in KnownParentIds : h[TAGS_HEADER] = PROPAGATED_PARENT_ID_KEY \o "=" \o v
    THEN PROPAGATED_PARENT_ID_KEY :>
            CHOOSE v \in KnownParentIds : h[TAGS_HEADER] = PROPAGATED_PARENT_ID_KEY \o "=" \o v
    ELSE NoHeaders
PropagatorExtract(h) ==
    [trace_id |-> ParseId(h, TRACE_ID_HEADER), span_id |-> ParseId(h, PARENT_ID_HEADER),
     meta |-> DecodeTags(h)]

\* what a propagation call leaves alone
PropFrame ==
    UNCHANGED <<enabled, instance, insts, objs, trc, forkHooks, cfg, env, ext, scopes, span,
                nForks, spans, evalq, th>>

\* LLMObs.inject_distributed_headers(request_headers, span) (lines 881-900);
\* i = 0 stands for span=None; carrier is what the call returns
InjectSignal(i, request_headers) ==
    IF ~enabled THEN "disabled"
    ELSE IF request_headers.ty # "dict" THEN "not_dict"
    ELSE IF InjectTarget(i) = 0 THEN "no_span"
    ELSE "injected"
InjectHeaders(i, request_headers) ==
    LET res == InjectSignal(i, request_headers)
    IN /\ carrier' = IF res = "injected"
                     THEN PyDict(PropagatorInject(InjectedContext(InjectTarget(i)),
                                                  request_headers.v))
                     ELSE request_headers
       /\ op' = [name |-> "inject", res |-> res, id |-> i, headers |-> request_headers]
       /\ UNCHANGED <<active, ctx, dctx>>
       /\ PropFrame

\* variant: only a context with neither id is turned away
MissingBothIds(context) == context.trace_id = PyNone /\ context.span_id = PyNone
\* line 914
MissingIds(context) == context.trace_id = PyNone \/ context.span_id = PyNone

\* LLMObs.activate_distributed_headers(request_headers) (lines 902-921):
\* context_provider.activate makes the extracted context the active one, so
\* no span is current and the context carries no ambient annotation id
ActivateSignal(context) ==
    IF ~enabled THEN "disabled"
    ELSE IF MissingIds(context) THEN "no_ids"
    ELSE IF PROPAGATED_PARENT_ID_KEY \notin DOMAIN context.meta THEN "no_parent_id"
    ELSE "activated"
ActivateHeaders(request_headers) ==
    LET context == PropagatorExtract(request_headers)
        res == ActivateSignal(context)
    IN /\ IF res \in {"no_parent_id", "activated"}
          THEN dctx' = context /\ active' = 0 /\ ctx' = NewCtx
          ELSE UNCHANGED <<active, ctx, dctx>>
       /\ op' = [name |-> "activate", res |-> res, id |-> 0, headers |-> request_headers]
       /\ UNCHANGED carrier
       /\ PropFrame

\* ---------------------------------------------------------------- SpecProp
\* spans of a task and of a plain web request started while the service is
\* enabled, headers injected for any of them and carriers activated, whole or
\* with one of the propagator's headers taken out
MaxPropSpans == 2
ACCEPT == "accept" :> "json"
HeaderArgs == {PyDict(ACCEPT), PyStr("accept: json")}
DropHeader(h, k) == [x \in DOMAIN h \ {k} |-> h[x]]
CarrierArgs ==
    IF carrier.ty # "dict" THEN {NoHeaders}
    ELSE {carrier.v} \cup {DropHeader(carrier.v, k) : k \in DOMAIN carrier.v \ DOMAIN ACCEPT}
\* the propagated parent id the active distributed context hands a new span
PropParent ==
    IF PROPAGATED_PARENT_ID_KEY \in DOMAIN dctx.meta
    THEN dctx.meta[PROPAGATED_PARENT_ID_KEY] ELSE NoneV
PropStartTask ==
    /\ enabled /\ Len(spans) < MaxPropSpans
    /\ StartPlainSpan("task", NoneV, NoneV, NoneV, PropParent)
PropStartTraced == enabled /\ Len(spans) < MaxPropSpans /\ StartTracerSpan(WEB, PropParent)
PropInject == \E i \in 0..Len(spans) : \E h \in HeaderArgs : InjectHeaders(i, h)
PropActivate == \E h \in CarrierArgs : ActivateHeaders(h)

NextProp ==
    EvalEnable \/ Disable \/ PropStartTask \/ PropStartTraced \/ PropInject \/ PropActivate

SpecProp == InitAnn /\ [][NextProp]_vars

\* --------------------------------------------------- propagation claims
InjectStep == op'.name = "inject"
ActivateStep == op'.name = "activate"
\* the span an inject call is about, as the call tells it
SpanToInject == IF op'.id = 0 THEN active ELSE op'.id
\* the logical parent id of span i: the id of the nearest span of the LLMObs
\* type from i upward, "undefined" when there is none
LogicalParentOf(i) ==
    LET n == NearestOf(i, IsLLMObsSpan) IN IF n = 0 THEN "undefined" ELSE SpanIdStr(n)
\* the context a carrier injected for span i has to bring to the other side
ContextOf(i) ==
    [trace_id |-> PyInt(spans[i].trace), span_id |-> PyInt(i),
     meta |-> PROPAGATED_PARENT_ID_KEY :> LogicalParentOf(i)]
\* a carrier an inject call wrote the trace context into
Injected(c) == c.ty = "dict" /\ {TRACE_ID_HEADER, PARENT_ID_HEADER, TAGS_HEADER} \subseteq DOMAIN c.v

\* C22: with the service enabled, injecting headers for a span and then
\* activating the resulting carrier yields an active context whose logical
\* parent id is the one computed for that span at injection time and whose
\* trace id and span id are those of the injected span: the carrier an inject
\* returns for a span reads back as that span's context, and activating an
\* injected carrier makes exactly the context it reads back as the active one.
C22_InjectActivateRoundTrip ==
    [][/\ (InjectStep /\ enabled /\ op'.headers.ty = "dict" /\ SpanToInject # 0) =>
              /\ Injected(carrier')
              /\ PropagatorExtract(carrier'.v) = ContextOf(SpanToInject)
              /\ \A k \in DOMAIN op'.headers.v : k \in DOMAIN carrier'.v
       /\ (ActivateStep /\ enabled /\ Injected(carrier) /\ op'.headers = carrier.v) =>
              /\ active' = 0
              /\ dctx' = PropagatorExtract(carrier.v)
              /\ \E i \in 1..Len(spans) : dctx' = ContextOf(i)]_vars

\* headers injected for a web request's span below a task, then activated:
\* the active context has the request span's ids and the task as logical parent
C22_Witness ==
    /\ op.name = "activate" /\ op.res = "activated" /\ op.headers = carrier.v
    /\ Len(spans) = 2 /\ spans[2].type = WEB /\ spans[2].parent = 1 /\ spans[1].type = LLM
    /\ active = 0
    /\ dctx = [trace_id |-> PyInt(spans[1].trace), span_id |-> PyInt(2),
               meta |-> PROPAGATED_PARENT_ID_KEY :> SpanIdStr(1)]

\* the headers of an activate call hold both of the propagator's ids
HasBothIds(h) == TRACE_ID_HEADER \in DOMAIN h /\ PARENT_ID_HEADER \in DOMAIN h

\* C23: activating headers changes the active trace context if and only if the
\* service is enabled and the extracted context has both a trace id and a span
\* id; when either id is missing the previously active context stays active,
\* and when only the logical-parent key is missing the extracted context is
\* still activated.
C23_ActivatesIffBothIds ==
    [][ActivateStep =>
          IF enabled /\ HasBothIds(op'.headers)
          THEN /\ active' = 0
               /\ dctx' = PropagatorExtract(op'.headers)
               /\ dctx'.trace_id # PyNone /\ dctx'.span_id # PyNone
               /\ op'.res = (IF TAGS_HEADER \in DOMAIN op'.headers
                             THEN "activated" ELSE "no_parent_id")
          ELSE /\ UNCHANGED <<active, ctx, dctx>>
               /\ op'.res \in {"disabled", "no_ids"}]_vars

\* a context activated from headers without the logical-parent key is still
\* the active one after headers without a span id were turned away
C23_Witness ==
    /\ op.name = "activate" /\ op.res = "no_ids" /\ enabled
    /\ TRACE_ID_HEADER \in DOMAIN op.headers /\ PARENT_ID_HEADER \notin DOMAIN op.headers
    /\ active = 0 /\ dctx.span_id # PyNone /\ dctx.trace_id # PyNone
    /\ dctx.meta = NoHeaders

\* an argument of the call has a type its parameter does not take
WronglyTyped(a) ==
    \/ a.metric_type.ty # "str"
    \/ a.span_context.ty # "dict"
    \/ a.tags.ty \notin {"none", "dict"}
    \/ a.metadata.ty \notin {"none", "dict"}

\* C24: for every combination of argument values, wrongly typed ones
\* included (a metric kind that is not a string, a span reference that is not
\* a mapping, tags or metadata that are not mappings), submit_evaluation
\* returns normally with the metric dropped and never raises into the caller.
C24_NeverRaises ==
    [][SubmitStep =>
          /\ op'.res # "raised"
          /\ WronglyTyped(op'.args) => Enqueued = 0]_vars

\* ------------------------------------------------------------------ flush
\* variant: flush goes on to the writers whatever the service's state
FlushAlways == FALSE
\* line 324
FlushDisabled == ~enabled

\* the writers flush() invokes, in order (lines 328-329): the span writer, and
\* the evaluation-metric writer unless the span writer's periodic() raised
FlushCalls(swFails) ==
    IF FlushDisabled THEN <<>>
    ELSE IF swFails THEN <<insts[instance].sw>>
    ELSE <<insts[instance].sw, insts[instance].ew>>

\* writer.periodic() of the evaluation-metric writer w: what it holds is sent
\* and leaves the queue, unless the call fails
Periodic(q, w, fails) == IF fails THEN q ELSE SelectSeq(q, LAMBDA e : e.writer # w)

\* LLMObs.flush() (lines 319-331); swFails and ewFails tell whether the
\* periodic() of the span writer and of the evaluation-metric writer raises
FlushSignal(swFails, ewFails) ==
    IF FlushDisabled THEN "disabled"
    ELSE IF swFails \/ ewFails THEN "caught"
    ELSE "ok"
Flush(swFails, ewFails) ==
    /\ evalq' = IF Len(FlushCalls(swFails)) = 2
                THEN Periodic(evalq, insts[instance].ew, ewFails) ELSE evalq
    /\ op' = [name |-> "flush", res |-> FlushSignal(swFails, ewFails), id |-> 0,
              calls |-> FlushCalls(swFails), fails |-> <<swFails, ewFails>>]
    /\ EvalFrame

\* --------------------------------------------------------------- SpecFlush
\* evaluations submitted and flushed, each writer failing or not
FlushCall == \E swFails \in BOOLEAN, ewFails \in BOOLEAN : Flush(swFails, ewFails)
NextFlush == EvalEnable \/ Disable \/ EvalSubmit \/ FlushCall
SpecFlush == InitAnn /\ [][NextFlush]_vars

\* ----------------------------------------------------------- flush claim
FlushStep == op'.name = "flush"
\* C25: flush() never raises: when the service is disabled it returns without
\* invoking either writer, and when enabled any failure raised by a writer's
\* flush is caught and flush() still returns normally.
C25_FlushNeverRaises ==
    [][FlushStep =>
          /\ op'.res \in {"disabled", "caught", "ok"}
          /\ ~enabled => op'.calls = <<>> /\ evalq' = evalq /\ op'.res = "disabled"
          /\ enabled =>
                /\ op'.calls # <<>> /\ op'.calls[1] = insts[instance].sw
                /\ \A i \in 1..Len(op'.calls) :
                       op'.calls[i] \in {insts[instance].sw, insts[instance].ew}
                /\ op'.res = (IF TRUE \in {op'.fails[1], op'.fails[2]} THEN "caught" ELSE "ok")
          /\ UNCHANGED <<enabled, instance, insts, objs>>]_vars

\* a flush of the enabled service whose evaluation-metric writer fails: both
\* writers were invoked, the failure was caught and the record is still queued
C25_Witness ==
    /\ op.name = "flush" /\ op.res = "caught" /\ enabled
    /\ op.fails = <<FALSE, TRUE>>
    /\ op.calls = <<insts[instance].sw, insts[instance].ew>>
    /\ Len(evalq) = 1

\* ------------------------------------------------ annotation scope claims
RegisterStep == op'.name = "register"
\* the active trace context carries an ambient context id
HasAmbientId(c) == c.on /\ c.id # 0

\* C26: registering an annotation scope assigns an ambient context id to the
\* active trace context only when that context has none (a fresh context is
\* created and activated when none is active), and the id assigned is the
\* scope's own annotation id; when the context already carries an ambient id
\* the scope's entry records that id and the context's id is left unchanged,
\* so a nested scope appends an entry under the same id and replaces none.
C26_AmbientIdAssignedOnce ==
    [][RegisterStep =>
          LET before == insts[instance].annotations
              after == insts'[instance].annotations
              entry == after[Len(after)]
          IN /\ Len(after) = Len(before) + 1
             /\ SubSeq(after, 1, Len(before)) = before
             /\ entry.id = op'.id
             /\ \A k \in 1..Len(before) : before[k].id # entry.id
             /\ ctx'.on
             /\ IF HasAmbientId(ctx)
                THEN ctx' = ctx /\ entry.ctx = ctx.id
                ELSE ctx'.id = entry.id /\ entry.ctx = entry.id]_vars

\* a scope entered inside another: two entries with different annotation ids
\* under the ambient id the first one assigned
C26_Witness ==
    /\ op.name = "register" /\ op.id = 2
    /\ Len(insts[instance].annotations) = 2
    /\ insts[instance].annotations[1].id = 1 /\ insts[instance].annotations[2].id = 2
    /\ insts[instance].annotations[1].ctx = 1 /\ insts[instance].annotations[2].ctx = 1
    /\ ctx = [on |-> TRUE, id |-> 1]

\* ---------------------------------------------------------------- SpecHook
\* threads entering annotation scopes, the first of them also starting spans
\* of the LLM type and of another type on the tracer of the enabled service,
\* step by step
HookStartSpan == ThreadStartSpan(1)
HookStartOther == ThreadStartOther(1)
HookTakeLock == ThreadHookLock(1)
HookIterate == ThreadHookNext(1)
HookReturn == ThreadHookReturn(1)
HookSpanStarted == ThreadSpanStarted(1)
NextHook ==
    \/ EnableValid
    \/ RegisterLock \/ RegisterAppend \/ Release
    \/ HookStartSpan \/ HookStartOther \/ HookTakeLock \/ HookIterate \/ HookReturn
    \/ HookSpanStarted

SpecHook == InitAnn /\ [][NextHook]_vars

\* thread t is inside the hooks of a span that is not of the LLM type
InOtherSpanHooks(t) == th[t].pc # "idle" /\ ~th[t].llm

\* C27: when the span-start hook fires for a span whose type is not the
\* annotatable (LLM) type, it returns without acquiring the registry lock and
\* without changing the span's tags or name (no registry entry is applied to
\* it), whatever entries the registry holds: the hook's step is taken whoever
\* holds the lock, and changes nothing but the hooks left to run.
C27_OtherTypeSkipsRegistry ==
    [][\A t \in Threads :
          /\ InOtherSpanHooks(t)' =>
                /\ th'[t].pc = "emit" /\ th'[t].lk = 0 /\ th'[t].applied = {}
          /\ (InOtherSpanHooks(t) /\ th'[t] # th[t] /\ th[t].hs # <<>>) =>
                /\ th'[t] = [th[t] EXCEPT !.hs = Tail(@)]
                /\ UNCHANGED <<insts, scopes>>]_vars

\* the hook of a span of another type has returned while the other thread
\* holds the registry lock and the registry holds an entry under the ambient
\* id of the span's context
C27_Witness ==
    /\ op.name = "hook_return"
    /\ \E t \in Threads, u \in Threads :
          /\ t # u
          /\ InOtherSpanHooks(t) /\ th[t].hs = <<>>
          /\ th[u].lk = instance /\ th[u].pc = "register"
          /\ \E k \in 1..Len(insts[instance].annotations) :
                 EntryMatches(insts[instance].annotations[k], th[t].ctx.id)

\* ---------------------------------------------------------------- SpecMeta
\* One task span annotated any number of times with metadata and metrics:
\* nothing, an empty dictionary, a value that is no dictionary, and
\* dictionaries whose keys overlap; some calls give one dictionary as
\* metadata, as metrics and as tags alike.
MetaArgs == {PyNone, PyDict(EmptyDict), PyStr("a:1"), PyDict(TagA), PyDict(TagB), PyDict(TagAB)}
MetaCalls ==
    {[NoArgs EXCEPT !.metadata = md, !.metrics = mt] : md \in MetaArgs, mt \in MetaArgs}
    \cup {[NoArgs EXCEPT !.metadata = d, !.metrics = d, !.tags = d] : d \in MetaArgs}
MetaStart == spans = <<>> /\ StartPlainSpan("task", NoneV, NoneV, NoneV, NoneV)
MetaAnnotate == \E i \in 0..Len(spans) : \E a \in MetaCalls : AnnotateSpan(i, a)

NextMeta == MetaStart \/ MetaAnnotate \/ FinishSpan

SpecMeta == InitAnn /\ [][NextMeta]_vars

\* ---------------------------------------------------- metadata claims
\* the dictionary a span carries under a tag, empty when it carries none
DictUnder(sp, key) == IF key \in TagsOf(sp) THEN JsonLoads(GetTag(sp, key)) ELSE EmptyDict
NonEmptyDict(x) == x.ty = "dict" /\ DOMAIN x.v # {}
\* the span's dictionary under key is d and nothing else
ReplacedBy(old, new, key, d) ==
    /\ DOMAIN DictUnder(new, key) = DOMAIN d
    /\ \A k \in DOMAIN d : DictUnder(new, key)[k] = d[k]
    /\ \A k \in DOMAIN DictUnder(old, key) \ DOMAIN d : k \notin DOMAIN DictUnder(new, key)

\* C28: annotating an unfinished span with a non-empty metadata (or metrics)
\* mapping replaces the span's whole metadata (or metrics) value with the new
\* mapping: keys of an earlier metadata or metrics annotation that the new
\* mapping does not contain are no longer present afterwards.
C28_MetadataReplacedWholesale ==
    [][\A i \in 0..Len(spans), a \in MetaCalls :
          LET target == IF i = 0 THEN active ELSE i
          IN (AnnotateSpan(i, a) /\ target # 0 /\ ~spans[target].finished) =>
                /\ NonEmptyDict(a.metadata) =>
                       ReplacedBy(spans[target], spans'[target], METADATA, a.metadata.v)
                /\ NonEmptyDict(a.metrics) =>
                       ReplacedBy(spans[target], spans'[target], METRICS, a.metrics.v)]_vars

\* the span was given one dictionary with keys a and b as metadata, metrics
\* and tags, and later a dictionary with key b alone: its tags kept a, its
\* metadata and metrics did not
C28_Witness ==
    /\ Len(spans) = 1 /\ ~spans[1].finished /\ op.name = "annotate" /\ op.id = 1
    /\ DictUnder(spans[1], TAGS) = (SK("a") :> 2) @@ TagB
    /\ DictUnder(spans[1], METADATA) = TagB
    /\ DictUnder(spans[1], METRICS) = TagB

\* -------------------------------------------------------------- SpecReject
\* One span of any of four kinds, annotated with calls that give every
\* argument, all of them valid but at most two, which hold a value their
\* parameter rejects.
GoodCall ==
    [parameters |-> NoteDict, prompt |-> NoteDict, input_data |-> PyStr("hi"),
     output_data |-> PyStr("out"), metadata |-> NoteDict, metrics |-> NoteDict,
     tags |-> NoteDict, name |-> "renamed"]
BadValue == PyInt(5)
Rejectable == {"parameters", "prompt", "input_data", "output_data", "metadata", "metrics", "tags"}
Spoiled(S) == [f \in DOMAIN GoodCall |-> IF f \in S THEN BadValue ELSE GoodCall[f]]
RejectCalls == {Spoiled({f, g}) : f \in Rejectable, g \in Rejectable} \cup {GoodCall, NoArgs}
RejectKinds == {"llm", "embedding", "retrieval", "task"}

RejectStart ==
    /\ spans = <<>>
    /\ \/ \E k \in ModelKinds : StartModelSpan(k, NoneV, NoneV, NoneV, NoneV, NoneV, NoneV)
       \/ \E k \in RejectKinds \ ModelKinds : StartPlainSpan(k, NoneV, NoneV, NoneV, NoneV)
RejectAnnotate == \E i \in 0..Len(spans) : \E a \in RejectCalls : AnnotateSpan(i, a)

NextReject == RejectStart \/ RejectAnnotate \/ FinishSpan

SpecReject == InitAnn /\ [][NextReject]_vars

\* ------------------------------------------------------ rejection claim
\* the tag that takes the input data and the output data of a span of kind k,
\* and whether it takes them as a list of messages or documents
InputTag(k) ==
    IF k = "llm" THEN INPUT_MESSAGES ELSE IF k = "embedding" THEN INPUT_DOCUMENTS ELSE INPUT_VALUE
OutputTag(k) ==
    IF k = "llm" THEN OUTPUT_MESSAGES ELSE IF k = "retrieval" THEN OUTPUT_DOCUMENTS
    ELSE OUTPUT_VALUE
InputParsed(k) == k \in {"llm", "embedding"}
OutputParsed(k) == k \in {"llm", "retrieval"}
\* what a valid value leaves under a data tag, parsed into a list or as it is
DataWritten(parsed, x) == IF parsed THEN Json(PyList(<<x>>)) ELSE Json(x)
\* a value of input or output data that cannot be parsed where parsing applies
Unparsable(parsed, x) == parsed /\ x.ty \notin {"str", "dict", "list"}
Untouched(old, new, key) == GetTag(new, key) = GetTag(old, key)

\* the effect of one argument of the call on its own
MappingApplied(old, new, x, key) ==
    IF x.ty = "dict" THEN GetTag(new, key) = Json(x.v)
    ELSE Untouched(old, new, key)
TagsApplied(old, new, x) ==
    IF x.ty = "dict" THEN \A k \in DOMAIN x.v : DictUnder(new, TAGS)[k] = x.v[k]
    ELSE Untouched(old, new, TAGS)
DataApplied(old, new, x, key, parsed) ==
    IF Unparsable(parsed, x) THEN Untouched(old, new, key)
    ELSE GetTag(new, key) = DataWritten(parsed, x)

\* C29: within one annotate call on an unfinished LLMObs span, a rejected
\* argument (metadata, metrics, tags or parameters that are no mapping, an
\* invalid prompt, unparsable input messages or documents) causes only that
\* tag write to be skipped: its tag stays as it was, every other valid
\* argument of the same call is still applied, and the call does not raise.
C29_RejectedArgumentSkipsOwnWrite ==
    [][\A i \in 0..Len(spans), a \in RejectCalls \ {NoArgs} :
          LET target == IF i = 0 THEN active ELSE i
          IN (AnnotateSpan(i, a) /\ target # 0 /\ ~spans[target].finished) =>
                LET old == spans[target]
                    new == spans'[target]
                    k == GetTag(old, SPAN_KIND).v
                IN /\ op'.res = "ok"
                   /\ MappingApplied(old, new, a.metadata, METADATA)
                   /\ MappingApplied(old, new, a.metrics, METRICS)
                   /\ MappingApplied(old, new, a.parameters, INPUT_PARAMETERS)
                   /\ MappingApplied(old, new, a.prompt, INPUT_PROMPT)
                   /\ TagsApplied(old, new, a.tags)
                   /\ new.name = a.name
                   /\ DataApplied(old, new, a.input_data, InputTag(k), InputParsed(k))
                   /\ DataApplied(old, new, a.output_data, OutputTag(k), OutputParsed(k))]_vars

\* an llm span after one call whose prompt and input messages were rejected:
\* neither tag is there, every other argument of the call is
C29_Witness ==
    /\ Len(spans) = 1 /\ ~spans[1].finished /\ op.name = "annotate" /\ op.res = "ok"
    /\ GetTag(spans[1], SPAN_KIND) = PyStr("llm")
    /\ INPUT_PROMPT \notin TagsOf(spans[1]) /\ INPUT_MESSAGES \notin TagsOf(spans[1])
    /\ {METADATA, METRICS, TAGS, INPUT_PARAMETERS, OUTPUT_MESSAGES} \subseteq TagsOf(spans[1])
    /\ spans[1].name = "renamed"

\* every argument of the call but the timestamp passes its validation
ValidButTimestamp(a) == AllValid([a EXCEPT !.timestamp_ms = PyNone])

\* C30: a submit_evaluation call that supplies a timestamp which is a
\* non-negative integer (zero included) enqueues a record carrying exactly
\* that timestamp; the current time is used only when no timestamp is
\* supplied, and a negative or non-integer timestamp enqueues nothing.
C30_TimestampCarriedExactly ==
    [][(SubmitStep /\ ValidButTimestamp(op'.args)) =>
          LET ts == op'.args.timestamp_ms
          IN /\ (ts.ty = "int" /\ ts.v >= 0) =>
                    Enqueued = 1 /\ LastRecord.timestamp_ms = ts.v
             /\ ts = PyNone => Enqueued = 1 /\ LastRecord.timestamp_ms = NowMs
             /\ (ts # PyNone /\ ~(ts.ty = "int" /\ ts.v >= 0)) => Enqueued = 0]_vars

\* ------------------------------------------------------ lifecycle claims
\* the span writer and the evaluation-metric writer instance i holds
WritersOf(i) == {insts[i].sw, insts[i].ew}

\* C31: in every state reachable by any sequence of enable(), disable() and
\* fork events, a span writer or evaluation-metric writer is running only if
\* it belongs to the current service instance and the service is enabled;
\* writers of an instance that enable() has replaced (the default instance
\* created at import included) are never started.
C31_OnlyCurrentWritersRun ==
    \A i \in 1..Len(insts) :
        \A o \in WritersOf(i) :
            objs[o] = "running" => (i = instance /\ enabled)

\* whether enable(ml_app=m, agentless_enabled=a, site=s, api_key=k), called
\* while the service is disabled with configuration c, is rejected: no
\* application id from the argument, the environment or c, or agentless
\* delivery without a credential or a site
FirstGiven(x, y) == IF x # NoneV /\ x # "" THEN x ELSE y
WouldReject(c, m, a, s, k) ==
    \/ FirstGiven(m, FirstGiven(env.app_name, c.ml_app)) \in {NoneV, ""}
    \/ /\ a \/ c.agentless
       /\ \/ FirstGiven(k, c.api_key) \in {NoneV, ""}
          \/ FirstGiven(s, c.site) \in {NoneV, ""}

\* C32: a rejected enable() call has no effect on later calls: after an
\* enable() rejected for a configuration error, a following enable() with
\* given arguments succeeds or is rejected exactly as it would have been had
\* the rejected call never been made.
C32_RejectedEnableLeavesNoTrace ==
    [][(EnableStep /\ op'.res = "rejected") =>
          \A m \in MlApps, a \in BOOLEAN, s \in Sites, k \in ApiKeys :
              WouldReject(cfg', m, a, s, k) = WouldReject(cfg, m, a, s, k)]_vars

\* C33: a scope that is registered and not yet closed has its entry in the
\* registry the span-start hook consults, whatever enable() or disable()
\* calls happened since it was registered.
C33_PendingAnnotationStaysRegistered ==
    \A a \in 1..Len(scopes) :
        scopes[a].state = "open" =>
            \E k \in 1..Len(HookRegistry(instance)) : HookRegistry(instance)[k].id = a

\* --------------------------------------------------------------- SpecEmpty
\* One span of kind llm, embedding or retrieval, annotated with input and
\* output data that are absent, an empty list, one string or a list of one
\* string.  The call whose data are both the empty list also carries tags, so
\* that it can be told from the others afterwards.
EmptySeq == PyList(<<>>)
DataArgs == {PyNone, EmptySeq, PyStr("hi"), PyList(<<PyStr("hi")>>)}
EmptyCalls ==
    {[NoArgs EXCEPT !.input_data = x, !.output_data = y] : x \in DataArgs, y \in DataArgs}
    \cup {[NoArgs EXCEPT !.input_data = EmptySeq, !.output_data = EmptySeq, !.tags = NoteDict]}
EmptyKinds == {"llm", "embedding", "retrieval"}

EmptyStart ==
    /\ spans = <<>>
    /\ \/ \E k \in ModelKinds : StartModelSpan(k, NoneV, NoneV, NoneV, NoneV, NoneV, NoneV)
       \/ \E k \in EmptyKinds \ ModelKinds : StartPlainSpan(k, NoneV, NoneV, NoneV, NoneV)
EmptyAnnotate == \E i \in 0..Len(spans) : \E a \in EmptyCalls : AnnotateSpan(i, a)

NextEmpty == EmptyStart \/ EmptyAnnotate \/ FinishSpan

SpecEmpty == InitAnn /\ [][NextEmpty]_vars

\* the tag is absent before and after, or holds the same value before and after
TagKept(old, new, key) ==
    /\ key \in TagsOf(new) <=> key \in TagsOf(old)
    /\ GetTag(new, key) = GetTag(old, key)

\* C34: annotating an llm span with input or output data that is an empty
\* sequence of messages, or an embedding span with an empty sequence of input
\* documents, or a retrieval span with an empty sequence of output documents,
\* writes no messages or documents tag: an absent tag stays absent and a
\* value written earlier stays as it was.
C34_EmptySequenceWritesNothing ==
    [][\A i \in 0..Len(spans), a \in EmptyCalls :
          LET target == IF i = 0 THEN active ELSE i
          IN (AnnotateSpan(i, a) /\ target # 0) =>
                LET old == spans[target]
                    new == spans'[target]
                    k == GetTag(old, SPAN_KIND).v
                IN /\ (InputParsed(k) /\ a.input_data = EmptySeq) =>
                          TagKept(old, new, InputTag(k))
                   /\ (OutputParsed(k) /\ a.output_data = EmptySeq) =>
                          TagKept(old, new, OutputTag(k))]_vars

\* an unfinished llm span whose input messages were written by an earlier
\* call, just after the call that gave the empty list as input and as output:
\* the input messages are the earlier ones and there are no output messages
C34_Witness ==
    /\ Len(spans) = 1 /\ ~spans[1].finished
    /\ op.name = "annotate" /\ op.res = "ok" /\ op.tags = NoteDict
    /\ GetTag(spans[1], SPAN_KIND) = PyStr("llm")
    /\ GetTag(spans[1], INPUT_MESSAGES) = Json(PyList(<<PyStr("hi")>>))
    /\ OUTPUT_MESSAGES \notin TagsOf(spans[1])

====
